---- MODULE Spec2Model ----
(***************************************************************************)
(* Work Order Matcher: the matching pipeline of AnthropicClient            *)
(* (sanitize -> build prompt -> call the service with retries -> validate  *)
(* the response) and MatchingResult.from_api_response, as state machines.  *)
(*                                                                         *)
(* Encodings                                                               *)
(*   - A Python dict is a record that carries the set `has` of the keys    *)
(*     present; `k in d` is k \in d.has and d.get(k, dflt) reads the field *)
(*     only when the key is present.                                       *)
(*   - A JSON scalar is a record [t, v]: t is its type tag and v its       *)
(*     numeric value in tenths (85 is v = 850, 72.9 is v = 729); v is 0    *)
(*     where the type has no numeric value.                                *)
(*   - An identifier string is a sequence of pieces ("WO#", " ", "A5966"), *)
(*     so that replace('WO#', '') and strip() act on its parts.            *)
(***************************************************************************)
EXTENDS Integers, Sequences, FiniteSets, TLC

VARIABLES
    pc,           \* position of the running operation
    email_text,   \* the free text submitted (chunk sequence)
    strict_mode,  \* Config.STRICT_INPUT_VALIDATION
    max_retries,  \* AnthropicClient.max_retries (Config.MAX_API_RETRIES)
    sanitization_result,  \* the dict sanitize_email_text returned
    prompt,       \* the instruction built by build_matching_prompt
    attempt,      \* _make_api_call: the loop index
    calls,        \* number of client.messages.create calls of this run
    outcome,      \* how the last call ended
    wait,         \* seconds of the last time.sleep
    response,     \* the raw response text (token sequence)
    validation,   \* the dict validate_response returned
    api_result,   \* the dict find_matches returned
    work_orders,  \* the candidate WorkOrder list
    matching_result,  \* the MatchingResult from_api_response built
    amount_comparison,  \* an AmountComparison (amounts in thousandths)
    amount_view,  \* the properties read off amount_comparison
    target_amount,      \* get_work_orders_by_amount_range: the email amount
    tolerance_percent,  \* get_work_orders_by_amount_range: the tolerance
    matching_wos, \* what get_work_orders_by_amount_range returned
    total,        \* WorkOrder.total (character sequence)
    clean_amount, \* what get_clean_amount returned
    first_amount,  \* the amount whose textual form is parsed again
    row_data,  \* from_sheets_row: the row of the sheet (a dict of cells)
    sheet_work_order,  \* the WorkOrder from_sheets_row built
    candidates,  \* _format_work_orders: the list of work-order dicts
    wo_summary,  \* the summary _format_work_orders returned (its lines)
    signals,  \* the signals of the rubric that apply to one match
    score,  \* the blended confidence score of those signals
    tm_max_workers,  \* ThreadManager.max_workers
    tm_active_threads,  \* ThreadManager._active_threads (the counter's value)
    tm_active_tasks,  \* ThreadManager._active_tasks: task_id -> index of the task, 0 when absent
    tm_tasks,  \* the WorkerTask objects created, one per thread started
    tm_result_queue,  \* ThreadManager._result_queue (indices of tasks)
    tm_last_submit,  \* what the last submit_task call returned
    gui_work_orders,  \* WorkOrderMatcherApp.work_orders (which list of the sheet: 0 is the empty list)
    matching_in_progress,  \* WorkOrderMatcherApp.matching_in_progress
    find_matches_button,  \* whether find_matches_button is in state normal
    load_task,  \* the load_work_orders task: idle or running
    matching_task,  \* the matching_analysis task: idle, started or built
    gui_result_queue,  \* the results queued for process_completed_tasks
    prompt_candidates,  \* the list run_matching gave to find_matches
    reconcile_candidates  \* the list run_matching gave to from_api_response

sanVars == <<email_text, strict_mode, sanitization_result>>
callVars == <<max_retries, prompt, attempt, calls, outcome, wait>>
valVars == <<response, validation>>
recVars == <<api_result, work_orders, matching_result>>
amtVars == <<amount_comparison, amount_view, target_amount, tolerance_percent,
             matching_wos, total, clean_amount, first_amount>>
rowVars == <<row_data, sheet_work_order>>
fmtVars == <<candidates, wo_summary>>
scoreVars == <<signals, score>>
tmVars == <<tm_max_workers, tm_active_threads, tm_active_tasks, tm_tasks, tm_result_queue, tm_last_submit>>
guiVars == <<gui_work_orders, matching_in_progress, find_matches_button, load_task, matching_task, gui_result_queue, prompt_candidates, reconcile_candidates>>
coreVars == <<sanVars, callVars, valVars, recVars, amtVars>>
extVars == <<rowVars, fmtVars, scoreVars, tmVars, guiVars>>
notRow == <<coreVars, fmtVars, scoreVars, tmVars, guiVars>>
notFmt == <<coreVars, rowVars, scoreVars, tmVars, guiVars>>
notScore == <<coreVars, rowVars, fmtVars, tmVars, guiVars>>
notTm == <<coreVars, rowVars, fmtVars, scoreVars, guiVars>>
notGui == <<coreVars, rowVars, fmtVars, scoreVars, tmVars>>
vars == <<pc, email_text, strict_mode, max_retries, sanitization_result, prompt,
          attempt, calls, outcome, wait, response, validation, api_result,
          work_orders, matching_result, amount_comparison, amount_view,
          target_amount, tolerance_percent, matching_wos, total, clean_amount,
          first_amount, extVars>>

(***************************************************************************)
(* Bounds of the model                                                     *)
(***************************************************************************)
\* longest `matches` list enumerated in a payload
MaxMatches == 2
\* longest candidate list enumerated
MaxWorkOrders == 2
\* longest email text enumerated, in chunks
MaxChunks == 3
\* largest configured MAX_API_RETRIES enumerated
MaxRetries == 17
\* longest WorkOrder.total enumerated, in characters
MaxTotalLen == 6
\* longest candidate list given to _format_work_orders
MaxCandidates == 102
\* most worker threads a ThreadManager starts in a behaviour
MaxTasks == 2
\* largest ThreadManager.max_workers enumerated
MaxWorkers == 2
\* most results waiting for process_completed_tasks in the application
MaxQueued == 2

(***************************************************************************)
(* JSON scalars                                                            *)
(***************************************************************************)
Num(v)    == [t |-> "num", v |-> v]       \* int or float, v in tenths
NumStr(v) == [t |-> "numstr", v |-> v]    \* a string float() can parse, e.g. "73"
Str       == [t |-> "str", v |-> 0]       \* a string float() cannot parse
Null      == [t |-> "null", v |-> 0]      \* JSON null / None
Inf       == [t |-> "inf", v |-> 0]       \* float infinity (JSON 1e999, Infinity)
NaN       == [t |-> "nan", v |-> 0]       \* float NaN (JSON NaN)
Absent    == [t |-> "absent", v |-> 0]    \* placeholder under a key not present

(***************************************************************************)
(* The wire schema: match entries and payloads                             *)
(***************************************************************************)
TopKeys == {"matches", "unmatched_items", "summary"}
MatchKeys == {"email_item", "work_order_id", "confidence", "evidence",
              "amount_comparison"}

SampleEvidence ==
    [t |-> "dict",
     has |-> {"primary_signals", "supporting_signals", "score_breakdown"},
     primary_signals |-> <<"exact unit match: 5966">>,
     supporting_signals |-> <<"exact amount: $450">>,
     score_breakdown |-> "50 (unit) + 30 (amount) = 80%",
     concerns |-> <<>>]

\* amounts are scalars whose v is in cents
SampleAmounts ==
    [t |-> "dict", has |-> {"email_amount", "wo_amount", "difference"},
     email_amount |-> Num(45000), wo_amount |-> Num(45000),
     difference |-> Num(0)]

\* a match entry that is a dict with every key of the schema
Entry(id, conf) ==
    [kind |-> "dict", has |-> MatchKeys,
     email_item |-> "Unit 5966: Concrete repair $450",
     work_order_id |-> id, confidence |-> conf,
     evidence |-> SampleEvidence, amount_comparison |-> SampleAmounts]

\* the same dict with key k deleted
Without(e, k) == [e EXCEPT !.has = @ \ {k}]

\* a `matches` element that is a JSON string instead of an object
StrEntry == [Entry(<<>>, Absent) EXCEPT !.kind = "str", !.has = {}]

ConfValues ==
    {Num(850), Num(600), Num(300), Num(0), Num(1000), Num(729),
     Num(-50), Num(1500), NumStr(730), Str, Null, Inf, NaN}

Entries ==
    {Entry(<<"WO#", "A5966">>, c) : c \in ConfValues}
    \cup {Entry(<<"B1">>, Num(600))}
    \cup {Without(Entry(<<"WO#", "A5966">>, Num(850)), k) : k \in MatchKeys}
    \cup {StrEntry}

RECURSIVE SeqsUpTo(_, _)
SeqsUpTo(S, n) ==
    IF n = 0 THEN {<<>>}
    ELSE LET shorter == SeqsUpTo(S, n - 1)
         IN  shorter \cup {Append(q, x) : q \in shorter, x \in S}

EntryLists == SeqsUpTo(Entries, MaxMatches)

\* a JSON value under `matches` / `unmatched_items`: a list, or another type
ListOf(items) == [t |-> "list", items |-> items]
NotList(t)    == [t |-> t, items |-> <<>>]
\* a JSON value under `summary`
Summary(t) == [t |-> t, s |-> IF t = "str" THEN "1 match found" ELSE ""]
SummaryText(s) == [t |-> "str", s |-> s]

Payload(has, m, u, s) ==
    [has |-> has, matches |-> m, unmatched_items |-> u, summary |-> s]

EmptyObject == Payload({}, NotList("absent"), NotList("absent"), Summary("absent"))

\* payloads with every top-level key and any list of entries
EntryPayloads ==
    {Payload(TopKeys, ListOf(items), ListOf(<<"Misc cleanup $75">>), Summary("str"))
        : items \in EntryLists}

\* payloads varying the top-level keys and the types under them
ShapePayloads ==
    {Payload(has,
             IF "matches" \in has THEN m ELSE NotList("absent"),
             IF "unmatched_items" \in has THEN u ELSE NotList("absent"),
             IF "summary" \in has THEN s ELSE Summary("absent"))
        : has \in SUBSET TopKeys,
          m \in {ListOf(<<>>), ListOf(<<Entry(<<"WO#", "A5966">>, Num(850))>>),
                 NotList("str"), NotList("emptystr"), NotList("null")},
          u \in {ListOf(<<>>), NotList("str"), NotList("null")},
          s \in {Summary("str"), Summary("null"), Summary("num")}}

Payloads == EntryPayloads \cup ShapePayloads

(***************************************************************************)
(* Response text.  A text is a sequence of tokens: a stretch of prose      *)
(* without braces, a stray "{" or "}", a well-formed JSON object (carrying *)
(* its payload) or a brace-delimited span that is not JSON ("{oops}").     *)
(***************************************************************************)
Tok(k, p) == [k |-> k, p |-> p]
Prose     == Tok("prose", EmptyObject)
Open      == Tok("open", EmptyObject)
Close     == Tok("close", EmptyObject)
BadObj    == Tok("badobj", EmptyObject)
Obj(p)    == Tok("obj", p)

HasOpen(tok)  == tok.k \in {"open", "obj", "badobj"}
HasClose(tok) == tok.k \in {"close", "obj", "badobj"}

SetMin(S) == CHOOSE x \in S : \A y \in S : x <= y
SetMax(S) == CHOOSE x \in S : \A y \in S : x >= y

\* no extraction: the whole text is handed to json.loads
json_match_mutant_whole(text) == text

\* re.search(r'\{.*\}', text, re.DOTALL): greedy, from the first "{" to the
\* last "}" of the whole text; <<>> when there is no such span
json_match(text) ==
    LET opens  == {i \in 1..Len(text) : HasOpen(text[i])}
        closes == {j \in 1..Len(text) : HasClose(text[j])}
    IN  IF opens = {} \/ closes = {} THEN <<>>
        ELSE LET i == SetMin(opens)
                 j == SetMax(closes)
             IN  IF j > i \/ (j = i /\ text[i].k # "open")
                 THEN SubSeq(text, i, j) ELSE <<>>

\* json.loads(span): the span parses when it is exactly one JSON object, or
\* "{" directly followed by "}" (the empty object)
json_ok(span) ==
    \/ Len(span) = 1 /\ span[1].k = "obj"
    \/ Len(span) = 2 /\ span[1].k = "open" /\ span[2].k = "close"

json_loads(span) == IF Len(span) = 1 THEN span[1].p ELSE EmptyObject

(***************************************************************************)
(* PromptBuilder.validate_response                                         *)
(***************************************************************************)
\* an error message: its fixed text and the field name formatted into it
Err(msg, field) == [msg |-> msg, field |-> field]
NoErr == Err("", "")     \* no message (None)

\* the dict validate_response returns; `has` holds its keys
VSuccess(parsed) ==
    [has |-> {"success", "parsed"}, success |-> TRUE, error |-> NoErr,
     parsed |-> parsed]
VErrorParsed(err, parsed) ==
    [has |-> {"error", "parsed"}, success |-> FALSE, error |-> err,
     parsed |-> parsed]
VErrorRaw(err) ==
    [has |-> {"error", "raw_response"}, success |-> FALSE, error |-> err,
     parsed |-> EmptyObject]
NotRun ==
    [has |-> {}, success |-> FALSE, error |-> NoErr, parsed |-> EmptyObject]

required_fields == <<"matches", "unmatched_items", "summary">>
required_match_fields == <<"email_item", "work_order_id", "confidence", "evidence">>

\* names the first field whenever any field is missing
FirstMissing_mutant_head(fields, has) ==
    IF \A i \in 1..Len(fields) : fields[i] \in has THEN "" ELSE fields[1]

\* first element of the sequence fields that is not in the key set, or ""
FirstMissing(fields, has) ==
    LET miss == {i \in 1..Len(fields) : fields[i] \notin has}
    IN  IF miss = {} THEN "" ELSE fields[SetMin(miss)]

\* isinstance(c, (int, float)) and 0 <= c <= 100   (c in tenths)
confidence_valid(c) == c.t = "num" /\ 0 <= c.v /\ c.v <= 1000

\* the body of the loop over parsed['matches'] for one element: the error it
\* returns, or NoErr when the element passes
check_match(m) ==
    IF m.kind # "dict"
    THEN \* `field not in "<a string>"` is a substring test: not found
         Err("Missing required match field", required_match_fields[1])
    ELSE IF FirstMissing(required_match_fields, m.has) # ""
    THEN Err("Missing required match field",
             FirstMissing(required_match_fields, m.has))
    ELSE IF ~confidence_valid(m.confidence)
    THEN Err("Invalid confidence score", "confidence")
    ELSE NoErr

validate_matches(parsed) ==
    LET m == parsed.matches
    IN  CASE m.t = "list" ->
               LET bad == {i \in 1..Len(m.items) : check_match(m.items[i]) # NoErr}
               IN  IF bad = {} THEN VSuccess(parsed)
                   ELSE VErrorParsed(check_match(m.items[SetMin(bad)]), parsed)
          [] m.t = "emptystr" -> VSuccess(parsed)  \* iterating "" visits nothing
          [] m.t = "str" ->      \* iterating a string visits its characters
               VErrorParsed(Err("Missing required match field",
                                required_match_fields[1]), parsed)
          [] OTHER ->            \* null, number: TypeError, caught by `except Exception`
               VErrorRaw(Err("Validation failed", ""))

validate_response(response_text) ==
    LET span == json_match(response_text)
    IN  IF span = <<>>
        THEN VErrorRaw(Err("No JSON found in response", ""))
        ELSE IF ~json_ok(span)
        THEN VErrorRaw(Err("JSON parsing failed", ""))
        ELSE LET parsed == json_loads(span)
             IN  IF FirstMissing(required_fields, parsed.has) # ""
                 THEN VErrorParsed(Err("Missing required field",
                                       FirstMissing(required_fields, parsed.has)),
                                   parsed)
                 ELSE validate_matches(parsed)

(***************************************************************************)
(* data_models: WorkOrder, Match, MatchingResult.from_api_response         *)
(***************************************************************************)
WorkOrder(id, tot) ==
    [wo_id |-> id, total |-> tot, location |-> "5966 Southern Ave",
     description |-> "Concrete repair"]
NoWorkOrder == WorkOrder(<<"<None>">>, <<>>)     \* the None back-reference

\* totals of the sheet, as character sequences
Total450 == <<"$", "4", "5", "0", ".", "0", "0">>
Total500 == <<"$", "5", "0", "0", ".", "0", "0">>
Total117 == <<"$", "1", "1", "7", ".", "0", "0">>
Total100 == <<"$", "1", "0", "0", ".", "0", "0">>
Total75 == <<"$", "7", "5", ".", "0", "0">>
TotalBlank == <<"-">>

\* WorkOrder.is_alpha_numeric: the wo_id starts with a letter
is_alpha_numeric(wo) ==
    wo.wo_id # <<>> /\ Head(wo.wo_id) \in {"A5966", "B1", "X", "WO#", "None"}

\* the dict find_matches returns (and any dict of that shape)
ApiResult(has, success, error, p) ==
    [has |-> has, success |-> success, error |-> error,
     matches |-> p.matches, unmatched_items |-> p.unmatched_items,
     summary |-> p.summary]

\* api_result.get('success', False), as a truth value
success_flag(r) == "success" \in r.has /\ r.success

\* int(x) on a float given in tenths: truncation toward zero
int_of(v) == IF v >= 0 THEN v \div 10 ELSE -((-v) \div 10)

\* max(0, min(100, confidence))
clamp_mutant_no_upper(c) == IF c < 0 THEN 0 ELSE c
clamp(c) == IF c < 0 THEN 0 ELSE IF c > 100 THEN 100 ELSE c

\* int(float(confidence_raw)) raises OverflowError on an infinity; that
\* exception is not among (ValueError, TypeError), so the entry is skipped
\* by the outer `except Exception: continue`
confidence_overflows(c) == c.t = "inf"

\* the confidence of the Match: clamp(int(float(raw))), or 0 when float()
\* or int() raises ValueError / TypeError
match_confidence(m) ==
    LET raw == IF "confidence" \in m.has THEN m.confidence ELSE Num(0)
    IN  IF raw.t \in {"num", "numstr"} THEN clamp(int_of(raw.v)) ELSE 0

\* safe_float(value): float(value), 0.0 for None and on ValueError/TypeError
safe_float(x) ==
    CASE x.t \in {"num", "numstr"} -> Num(x.v)
      [] x.t \in {"inf", "nan"} -> x
      [] OTHER -> Num(0)

\* str(wo_id_raw).replace('WO#', '').strip() if wo_id_raw else ''
RECURSIVE strip_left(_)
strip_left(q) == IF q # <<>> /\ Head(q) = " " THEN strip_left(Tail(q)) ELSE q
RECURSIVE strip_right(_)
strip_right(q) ==
    IF q # <<>> /\ q[Len(q)] = " " THEN strip_right(SubSeq(q, 1, Len(q) - 1)) ELSE q
clean_wo_id(m) ==
    IF "work_order_id" \in m.has
    THEN strip_right(strip_left(SelectSeq(m.work_order_id, LAMBDA x : x # "WO#")))
    ELSE <<>>

\* wo_lookup = {wo.wo_id: wo for wo in work_orders}; wo_lookup.get(wo_id)
wo_lookup_get_mutant_fallback(wos, id) ==
    LET hits == {i \in 1..Len(wos) : wos[i].wo_id = id}
    IN  IF hits # {} THEN wos[SetMax(hits)]
        ELSE IF wos # <<>> THEN wos[1] ELSE NoWorkOrder
wo_lookup_get(wos, id) ==
    LET hits == {i \in 1..Len(wos) : wos[i].wo_id = id}
    IN  IF hits = {} THEN NoWorkOrder ELSE wos[SetMax(hits)]

build_evidence(m) ==
    LET present == "evidence" \in m.has /\ m.evidence.t = "dict"
        ev == m.evidence
        lst(k) == IF present /\ k \in ev.has THEN ev[k] ELSE <<>>
    IN  [primary_signals |-> lst("primary_signals"),
         supporting_signals |-> lst("supporting_signals"),
         score_breakdown |-> IF present /\ "score_breakdown" \in ev.has
                             THEN ev.score_breakdown ELSE "",
         concerns |-> lst("concerns")]

build_amount_comparison(m) ==
    LET present == "amount_comparison" \in m.has /\ m.amount_comparison.t = "dict"
        ac == m.amount_comparison
        num(k) == IF present /\ k \in ac.has THEN safe_float(ac[k]) ELSE Num(0)
    IN  [email_amount |-> num("email_amount"), wo_amount |-> num("wo_amount"),
         difference |-> num("difference")]

\* the Match built from one dict entry
build_match(m, wos) ==
    [email_item |-> IF "email_item" \in m.has THEN m.email_item ELSE "",
     work_order_id |-> clean_wo_id(m),
     confidence |-> match_confidence(m),
     evidence |-> build_evidence(m),
     amount_comparison |-> build_amount_comparison(m),
     work_order |-> wo_lookup_get(wos, clean_wo_id(m))]

\* a threshold of 50 applied to the entries
keeps_match_mutant_threshold(m) ==
    /\ m.kind = "dict"
    /\ ~("confidence" \in m.has /\ confidence_overflows(m.confidence))
    /\ match_confidence(m) >= 50

\* whether the loop body appends a Match for this element
keeps_match(m) ==
    /\ m.kind = "dict"
    /\ ~("confidence" \in m.has /\ confidence_overflows(m.confidence))

RECURSIVE build_matches(_, _)
build_matches(items, wos) ==
    IF items = <<>> THEN <<>>
    ELSE (IF keeps_match(Head(items)) THEN <<build_match(Head(items), wos)>> ELSE <<>>)
         \o build_matches(Tail(items), wos)

\* Match.confidence_level
confidence_level(c) ==
    IF c >= 85 THEN "Very High"
    ELSE IF c >= 70 THEN "High"
    ELSE IF c >= 50 THEN "Medium"
    ELSE "Low"

UnknownError == Err("Unknown error", "")

MatchingResult(matches, unmatched, summary, success, error, raised) ==
    [matches |-> matches, unmatched_items |-> unmatched, summary |-> summary,
     success |-> success, error |-> error, raised |-> raised]

NoResult == MatchingResult(<<>>, NotList("absent"), Summary("absent"), FALSE, NoErr, FALSE)

\* the MatchingResult for a dict whose success flag is false or absent
failed_result_mutant_partial(r) ==
    MatchingResult(<<>>,
                   IF "unmatched_items" \in r.has THEN r.unmatched_items
                                                  ELSE ListOf(<<>>),
                   SummaryText("Matching failed"), FALSE,
                   IF "error" \in r.has THEN r.error ELSE UnknownError, FALSE)
failed_result(r) ==
    MatchingResult(<<>>, ListOf(<<>>), SummaryText("Matching failed"), FALSE,
                   IF "error" \in r.has THEN r.error ELSE UnknownError, FALSE)

\* the MatchingResult for a successful dict
reconciled_result(r, wos) ==
    LET m == IF "matches" \in r.has THEN r.matches ELSE ListOf(<<>>)
    IN  IF m.t \in {"null", "num"}
        THEN \* `for match_data in None`: TypeError outside the try block
             [NoResult EXCEPT !.raised = TRUE]
        ELSE MatchingResult(
                 \* iterating a string visits characters, none of them a dict
                 IF m.t = "list" THEN build_matches(m.items, wos) ELSE <<>>,
                 IF "unmatched_items" \in r.has THEN r.unmatched_items
                                                ELSE ListOf(<<>>),
                 IF "summary" \in r.has THEN r.summary
                                        ELSE SummaryText("Analysis complete"),
                 TRUE, NoErr, FALSE)

from_api_response(r, wos) ==
    IF ~success_flag(r) THEN failed_result(r) ELSE reconciled_result(r, wos)

(***************************************************************************)
(* data_models: AmountComparison.  Amounts are integers in thousandths of  *)
(* a dollar (0.01 is 10); a float computed from them is the exact          *)
(* fraction [num, den] with den > 0, and float('inf') is the fraction 1/0. *)
(***************************************************************************)
Abs(x) == IF x < 0 THEN -x ELSE x

Frac(n, d) == [num |-> n, den |-> d]
Infinity == Frac(1, 0)
\* a / b for b # 0
FracDiv(a, b) == IF b > 0 THEN Frac(a, b) ELSE Frac(-a, -b)
FracAbs(f) == Frac(Abs(f.num), f.den)
FracTimes(f, k) == Frac(f.num * k, f.den)
\* f <= g, f == g (nothing finite is above the infinity)
FracLeq(f, g) == f.num * g.den <= g.num * f.den
FracEq(f, g) == f.num * g.den = g.num * f.den

AmountComparison(e, w, d) == [email_amount |-> e, wo_amount |-> w, difference |-> d]

\* AmountComparison.percentage_difference
percentage_difference_mutant_email(ac) ==
    IF ac.email_amount = 0
    THEN IF ac.wo_amount # 0 THEN Infinity ELSE Frac(0, 1)
    ELSE FracTimes(FracAbs(FracDiv(ac.difference, ac.email_amount)), 100)
percentage_difference(ac) ==
    IF ac.wo_amount = 0
    THEN IF ac.email_amount # 0 THEN Infinity ELSE Frac(0, 1)
    ELSE FracTimes(FracAbs(FracDiv(ac.difference, ac.wo_amount)), 100)

\* AmountComparison.is_exact_match: abs(difference) < 0.01
is_exact_match_mutant_inclusive(ac) == Abs(ac.difference) <= 10
is_exact_match(ac) == Abs(ac.difference) < 10

\* AmountComparison.is_close_match: percentage_difference <= 15.0
is_close_match(ac) == FracLeq(percentage_difference(ac), Frac(15, 1))

AmountView(pct, exact, close) ==
    [percentage_difference |-> pct, is_exact_match |-> exact, is_close_match |-> close]
NoView == AmountView(Frac(0, 1), FALSE, FALSE)
NoComparison == AmountComparison(0, 0, 0)

(***************************************************************************)
(* data_models: WorkOrder.get_clean_amount.  A total is a sequence of      *)
(* characters.  A float is kept as its decimal expansion: the sign, the    *)
(* significant digits (no zero at either end) and the position decpt of    *)
(* the decimal point, the value being 0.d1d2... * 10^decpt; zero has no    *)
(* digits.  (The totals enumerated have few digits, so each float stands   *)
(* for exactly one such decimal.)                                          *)
(***************************************************************************)
DigitSeq == <<"0", "1", "2", "3", "4", "5", "6", "7", "8", "9">>
Digits == {DigitSeq[i] : i \in 1..10}
DigitVal(c) == (CHOOSE i \in 1..10 : DigitSeq[i] = c) - 1

Float(neg, digits, decpt) == [neg |-> neg, digits |-> digits, decpt |-> decpt]
Zero == Float(FALSE, <<>>, 0)      \* 0.0
\* a == b on floats (-0.0 == 0.0)
FloatEq(a, b) ==
    /\ a.digits = b.digits
    /\ a.decpt = b.decpt
    /\ a.digits = <<>> \/ a.neg = b.neg

RECURSIVE drop_leading_zeros(_)
drop_leading_zeros(q) ==
    IF q # <<>> /\ Head(q) = "0" THEN drop_leading_zeros(Tail(q)) ELSE q
RECURSIVE drop_trailing_zeros(_)
drop_trailing_zeros(q) ==
    IF q # <<>> /\ q[Len(q)] = "0"
    THEN drop_trailing_zeros(SubSeq(q, 1, Len(q) - 1)) ELSE q

Count(q, c) == Cardinality({i \in 1..Len(q) : q[i] = c})

\* re.sub(r'[^\d.-]', '', total): only digits, '.' and '-' stay
clean_total(tot) == SelectSeq(tot, LAMBDA c : c \in Digits \cup {".", "-"})

\* whether float() parses a string of digits, '.' and '-': an optional
\* leading '-', then digits with at most one '.', at least one digit
float_parses(q) ==
    LET body == IF q # <<>> /\ Head(q) = "-" THEN Tail(q) ELSE q
    IN  /\ Count(body, "-") = 0
        /\ Count(body, ".") <= 1
        /\ \E i \in 1..Len(body) : body[i] \in Digits

\* float(q) for a string float() parses
float_of(q) ==
    LET neg  == Head(q) = "-"
        body == IF neg THEN Tail(q) ELSE q
        dots == {i \in 1..Len(body) : body[i] = "."}
        dot  == IF dots = {} THEN Len(body) + 1 ELSE SetMin(dots)
        int  == SubSeq(body, 1, dot - 1)
        all  == int \o SubSeq(body, dot + 1, Len(body))
        sig  == drop_leading_zeros(all)
    IN  IF sig = <<>> THEN Float(neg, <<>>, 0)
        ELSE Float(neg, drop_trailing_zeros(sig), Len(int) - (Len(all) - Len(sig)))

\* WorkOrder.get_clean_amount
get_clean_amount(tot) ==
    IF tot = <<>> THEN Zero
    ELSE IF clean_total(tot) \in {<<>>, <<"-">>, <<".">>} THEN Zero
    ELSE IF float_parses(clean_total(tot)) THEN float_of(clean_total(tot))
    ELSE Zero      \* ValueError, caught

Zeros(n) == [i \in 1..n |-> "0"]

\* str(x) of a float: positional notation while -4 < decpt <= 16, the
\* exponent notation d.ddde-XX otherwise
float_str(x) ==
    LET n    == Len(x.digits)
        sign == IF x.neg THEN <<"-">> ELSE <<>>
        e    == x.decpt - 1
        ae   == IF e < 0 THEN -e ELSE e
    IN  IF n = 0 THEN sign \o <<"0", ".", "0">>
        ELSE IF x.decpt <= -4 \/ x.decpt > 16
        THEN sign \o <<x.digits[1]>>
             \o (IF n > 1 THEN <<".">> \o SubSeq(x.digits, 2, n) ELSE <<>>)
             \o <<"e", IF e < 0 THEN "-" ELSE "+">>
             \o <<DigitSeq[(ae \div 10) + 1], DigitSeq[(ae % 10) + 1]>>
        ELSE IF x.decpt <= 0
        THEN sign \o <<"0", ".">> \o Zeros(-x.decpt) \o x.digits
        ELSE IF x.decpt < n
        THEN sign \o SubSeq(x.digits, 1, x.decpt) \o <<".">>
             \o SubSeq(x.digits, x.decpt + 1, n)
        ELSE sign \o x.digits \o Zeros(x.decpt - n) \o <<".", "0">>

(***************************************************************************)
(* sheets_client: get_work_orders_by_amount_range.  target_amount is in    *)
(* cents, tolerance_percent in percent; the floats computed are exact      *)
(* fractions.                                                              *)
(***************************************************************************)
RECURSIVE IntOf(_)
IntOf(q) == IF q = <<>> THEN 0 ELSE IntOf(SubSeq(q, 1, Len(q) - 1)) * 10 + DigitVal(q[Len(q)])
RECURSIVE Pow10(_)
Pow10(n) == IF n <= 0 THEN 1 ELSE 10 * Pow10(n - 1)

\* the value of a float, as a fraction
FloatFrac(x) ==
    LET e == x.decpt - Len(x.digits)
        m == IntOf(x.digits) * Pow10(e)
    IN  Frac(IF x.neg THEN -m ELSE m, Pow10(-e))

FracSub(f, g) == Frac(f.num * g.den - g.num * f.den, f.den * g.den)
\* f / g for g # 0
FracQuot(f, g) ==
    IF g.num > 0 THEN Frac(f.num * g.den, f.den * g.num)
    ELSE Frac(-(f.num * g.den), -(f.den * g.num))

\* SheetsClient.load_alpha_numeric_work_orders
load_alpha_numeric_work_orders(all_work_orders) ==
    SelectSeq(all_work_orders, is_alpha_numeric)

\* wo_amount > 0
is_positive(x) == ~x.neg /\ x.digits # <<>>

\* abs(wo_amount - target_amount) / target_amount * 100, target_amount # 0
diff_percent(wo_amount, target) ==
    FracTimes(FracQuot(FracAbs(FracSub(FloatFrac(wo_amount), Frac(target, 100))),
                       Frac(target, 100)), 100)

\* SheetsClient.get_work_orders_by_amount_range: the list returned, or the
\* ZeroDivisionError raised at the first work order with a positive amount
\* when target_amount is 0
get_work_orders_by_amount_range(all_work_orders, target, tolerance) ==
    LET wos == load_alpha_numeric_work_orders(all_work_orders)
        within(wo) ==
            /\ is_positive(get_clean_amount(wo.total))
            /\ FracLeq(diff_percent(get_clean_amount(wo.total), target),
                       Frac(tolerance, 1))
    IN  IF target = 0
           /\ \E i \in 1..Len(wos) : is_positive(get_clean_amount(wos[i].total))
        THEN [raised |-> TRUE, wos |-> <<>>]
        ELSE [raised |-> FALSE, wos |-> SelectSeq(wos, within)]

(***************************************************************************)
(* data_models: WorkOrder.from_sheets_row.  A row is a dict of cells; a    *)
(* cell is a string (s: its pieces, or its characters for a Total), None,  *)
(* an int (s: its digits) or a float x.                                    *)
(***************************************************************************)
RowKeys == {"WO #", "Total", "Location", "Description"}

StrCell(s) == [t |-> "str", s |-> s, x |-> Zero]
NoneCell == [t |-> "none", s |-> <<>>, x |-> Zero]
IntCell(digits) == [t |-> "int", s |-> digits, x |-> Zero]
FloatCell(x) == [t |-> "float", s |-> <<>>, x |-> x]

\* str(value): the text of a string is itself, str(None) is 'None' (four
\* characters of a Total, one piece of the other fields)
str_of(c, chars) ==
    CASE c.t = "str" -> c.s
      [] c.t = "none" -> IF chars THEN <<"N", "o", "n", "e">> ELSE <<"None">>
      [] c.t = "int" -> c.s
      [] c.t = "float" -> float_str(c.x)

\* row_data.get(k, '')
row_get(row, k) == IF k \in row.has THEN row.cells[k] ELSE StrCell(<<>>)

\* WorkOrder.from_sheets_row
from_sheets_row(row) ==
    [raised |-> FALSE,
     wo_id |-> strip_right(strip_left(str_of(row_get(row, "WO #"), FALSE))),
     total |-> strip_right(strip_left(str_of(row_get(row, "Total"), TRUE))),
     location |-> strip_right(strip_left(str_of(row_get(row, "Location"), FALSE))),
     description |->
         strip_right(strip_left(str_of(row_get(row, "Description"), FALSE)))]

\* the amount variables, before any operation on amounts
IdleAmounts ==
    /\ amount_comparison = NoComparison
    /\ amount_view = NoView
    /\ target_amount = 0
    /\ tolerance_percent = 0
    /\ matching_wos = [raised |-> FALSE, wos |-> <<>>]
    /\ total = <<>>
    /\ clean_amount = Zero
    /\ first_amount = Zero

\* the further variables, before any of their operations
IdleRow ==
    /\ row_data = <<>>
    /\ sheet_work_order = <<>>
IdleFmt ==
    /\ candidates = <<>>
    /\ wo_summary = <<>>
IdleScore ==
    /\ signals = {}
    /\ score = 0
IdleTm ==
    /\ tm_max_workers = 0
    /\ tm_active_threads = 0
    /\ tm_active_tasks = <<>>
    /\ tm_tasks = <<>>
    /\ tm_result_queue = <<>>
    /\ tm_last_submit = <<>>
IdleGui ==
    /\ gui_work_orders = 0
    /\ matching_in_progress = FALSE
    /\ find_matches_button = FALSE
    /\ load_task = "idle"
    /\ matching_task = "idle"
    /\ gui_result_queue = <<>>
    /\ prompt_candidates = 0
    /\ reconcile_candidates = 0
IdleExt ==
    /\ IdleRow
    /\ IdleFmt
    /\ IdleScore
    /\ IdleTm
    /\ IdleGui
IdleExceptRow ==
    /\ IdleAmounts
    /\ IdleFmt
    /\ IdleScore
    /\ IdleTm
    /\ IdleGui
IdleExceptFmt ==
    /\ IdleAmounts
    /\ IdleRow
    /\ IdleScore
    /\ IdleTm
    /\ IdleGui
IdleExceptScore ==
    /\ IdleAmounts
    /\ IdleRow
    /\ IdleFmt
    /\ IdleTm
    /\ IdleGui
IdleExceptTm ==
    /\ IdleAmounts
    /\ IdleRow
    /\ IdleFmt
    /\ IdleScore
    /\ IdleGui
IdleExceptGui ==
    /\ IdleAmounts
    /\ IdleRow
    /\ IdleFmt
    /\ IdleScore
    /\ IdleTm

(***************************************************************************)
(* utils/input_sanitizer: EmailTextSanitizer.sanitize_email_text           *)
(*                                                                         *)
(* An email text is a sequence of chunks [k, n], k the kind of the chunk   *)
(* and n its length in characters.  The chunks stand for these strings:    *)
(*   plain  "Hello-team."          repair "repair,"     unit "unit:5966,"  *)
(*   cur    "$450.00!"             tag    "<b>"         ent  "&amp;"       *)
(*   script "<script>!</script>"   brace  "{[()]}"      sp   "   "         *)
(*   bulk   a run of MAX_TEXT_LENGTH dots                                  *)
(* Every chunk ends in punctuation, so a keyword or an amount is found in  *)
(* the text exactly when its chunk is there; the texts have one line.      *)
(***************************************************************************)
MAX_TEXT_LENGTH == 10000
MIN_TEXT_LENGTH == 20

ChunkLen(k) ==
    CASE k = "plain" -> 11 [] k = "repair" -> 7 [] k = "unit" -> 10
      [] k = "cur" -> 8 [] k = "tag" -> 3 [] k = "script" -> 18
      [] k = "ent" -> 5 [] k = "brace" -> 6 [] k = "sp" -> 3
      [] k = "bulk" -> MAX_TEXT_LENGTH
Chunk(k) == [k |-> k, n |-> ChunkLen(k)]
ChunkKinds == {"plain", "repair", "unit", "cur", "tag", "script", "ent",
               "brace", "sp", "bulk"}

\* characters of the chunk in the class [<>{}[\]();'"`]
SpecialChars(c) ==
    CASE c.k = "tag" -> 2 [] c.k = "script" -> 4 [] c.k = "brace" -> 6
      [] c.k = "ent" -> 1 [] OTHER -> 0

RECURSIVE SumLen(_)
SumLen(text) == IF text = <<>> THEN 0 ELSE Head(text).n + SumLen(Tail(text))
RECURSIVE SumSpecial(_)
SumSpecial(text) ==
    IF text = <<>> THEN 0 ELSE SpecialChars(Head(text)) + SumSpecial(Tail(text))
HasKind(text, k) == \E i \in 1..Len(text) : text[i].k = k

\* text[:room]: whole chunks while they fit; a run of dots is cut to the
\* room left; what follows is dropped
RECURSIVE truncate(_, _)
truncate(text, room) ==
    IF text = <<>> \/ room = 0 THEN <<>>
    ELSE IF Head(text).n <= room
         THEN <<Head(text)>> \o truncate(Tail(text), room - Head(text).n)
         ELSE <<[k |-> IF Head(text).k = "bulk" THEN "bulk" ELSE "cut",
                 n |-> room]>>

\* _check_security_patterns: the issues found, in order
check_security_patterns(text) ==
    (IF HasKind(text, "script") THEN <<"Suspicious pattern detected">> ELSE <<>>)
    \o (IF 10 * SumSpecial(text) > SumLen(text)
        THEN <<"High ratio of special characters">> ELSE <<>>)

\* html.unescape: "&amp;" becomes "&"
unescape_chunk(c) == IF c.k = "ent" THEN [k |-> "amp", n |-> 1] ELSE c
RECURSIVE html_unescape(_)
html_unescape(text) ==
    IF text = <<>> THEN <<>>
    ELSE <<unescape_chunk(Head(text))>> \o html_unescape(Tail(text))

\* _remove_html_tags: "<b>" vanishes, "<script>!</script>" leaves "!"
RECURSIVE remove_html_tags(_)
remove_html_tags(text) ==
    IF text = <<>> THEN <<>>
    ELSE (CASE Head(text).k = "tag" -> <<>>
            [] Head(text).k = "script" -> <<[k |-> "bang", n |-> 1]>>
            [] OTHER -> <<Head(text)>>)
         \o remove_html_tags(Tail(text))

\* [ \t]{2,} -> ' ': every run of blanks becomes one blank
RECURSIVE squeeze_blanks(_)
squeeze_blanks(text) ==
    IF text = <<>> THEN <<>>
    ELSE IF Head(text).k = "sp"
         THEN IF Len(text) > 1 /\ text[2].k = "sp"
              THEN squeeze_blanks(Tail(text))
              ELSE <<[k |-> "sp", n |-> 1]>> \o squeeze_blanks(Tail(text))
         ELSE <<Head(text)>> \o squeeze_blanks(Tail(text))

\* ^\s+|\s+$ and str.strip(): blanks at either end go
RECURSIVE strip_text(_)
strip_text(text) ==
    IF text # <<>> /\ Head(text).k = "sp" THEN strip_text(Tail(text))
    ELSE IF text # <<>> /\ text[Len(text)].k = "sp"
         THEN strip_text(SubSeq(text, 1, Len(text) - 1))
         ELSE text

clean_formatting(text) == strip_text(squeeze_blanks(text))

has_currency(text) == HasKind(text, "cur")
keyword_count(text) == Cardinality({k \in {"repair", "unit"} : HasKind(text, k)})

\* the check for currency amounts left out
validate_content_structure_mutant_silent(text) ==
    (IF keyword_count(text) < 2 THEN <<"Few billing-related keywords detected">>
                                ELSE <<>>)
    \o <<"Text has very few lines">>
    \o (IF SumLen(text) > 200 THEN <<"extremely long lines detected">> ELSE <<>>)

\* _validate_content_structure: the warnings, in order (a one-line text
\* always has fewer than 3 lines)
validate_content_structure(text) ==
    (IF ~has_currency(text) THEN <<"No currency amounts detected">> ELSE <<>>)
    \o (IF keyword_count(text) < 2 THEN <<"Few billing-related keywords detected">>
                                   ELSE <<>>)
    \o <<"Text has very few lines">>
    \o (IF SumLen(text) > 200 THEN <<"extremely long lines detected">> ELSE <<>>)

SanResult(text, valid, warnings, errors, olen) ==
    [sanitized_text |-> text, is_valid |-> valid, warnings |-> warnings,
     errors |-> errors, original_length |-> olen,
     sanitized_length |-> SumLen(text)]

NoSanResult == SanResult(<<>>, FALSE, <<>>, <<>>, 0)

\* steps 2-7, on the text step 1 leaves, with the errors and warnings so far
sanitize_from_step2(text, strict, warnings, errors, olen) ==
    LET issues == check_security_patterns(text)
        errs2  == errors \o issues
        clean  == clean_formatting(remove_html_tags(html_unescape(text)))
        warns6 == warnings \o validate_content_structure(clean)
    IN  IF issues # <<>> /\ strict
        THEN SanResult(<<>>, FALSE, warnings, errs2, olen)
        ELSE IF SumLen(strip_text(clean)) < MIN_TEXT_LENGTH
        THEN SanResult(<<>>, FALSE, warns6,
                       errs2 \o <<"Text became too short after sanitization">>, olen)
        ELSE SanResult(strip_text(clean), TRUE, warns6, errs2, olen)

sanitize_email_text(text, strict) ==
    LET olen == SumLen(text)
        long == olen > MAX_TEXT_LENGTH
        errs1 == IF long THEN <<"Text too long">> ELSE <<>>
        text1 == IF long THEN truncate(text, MAX_TEXT_LENGTH) ELSE text
        warns1 == IF long THEN <<"Text truncated to maximum length">> ELSE <<>>
    IN  IF text = <<>>
        THEN SanResult(<<>>, FALSE, <<>>, <<"Input text is empty or not a string">>, 0)
        ELSE IF long /\ strict
        THEN SanResult(<<>>, FALSE, <<>>, errs1, olen)
        ELSE IF SumLen(text1) < MIN_TEXT_LENGTH
        THEN SanResult(<<>>, FALSE, warns1, errs1 \o <<"Text too short">>, olen)
        ELSE sanitize_from_step2(text1, strict, warns1, errs1, olen)

(***************************************************************************)
(* llm/anthropic_client: AnthropicClient._make_api_call and find_matches   *)
(***************************************************************************)
\* how a call to client.messages.create can end without text:
\*   empty       the response has no content: ValueError raised in the try
\*   rate_limit  anthropic.RateLimitError
\*   api_error   any other anthropic.APIError
\*   other       any other exception
FailureKinds == {"empty", "rate_limit", "api_error", "other"}

\* for attempt in range(self.max_retries)
in_loop_mutant_one_more(a, mr) == a <= mr
in_loop(a, mr) == a < mr

\* if attempt < self.max_retries - 1: sleep and go on, else: raise e
can_retry(a, mr) == a < mr - 1

\* min((attempt + 1) * 2, 30)
rate_limit_wait_mutant_uncapped(a) == (a + 1) * 2
rate_limit_wait(a) == IF (a + 1) * 2 < 30 THEN (a + 1) * 2 ELSE 30

\* min(attempt + 1, 5)
api_error_wait(a) == IF a + 1 < 5 THEN a + 1 ELSE 5

\* the argument of time.sleep in the handler of each kind of failure
backoff(kind, a) ==
    CASE kind = "rate_limit" -> rate_limit_wait(a)
      [] kind = "api_error" -> api_error_wait(a)
      [] OTHER -> 1

NoPrompt == [built |-> FALSE, email_text |-> <<>>, work_order_count |-> 0]
build_matching_prompt(text, wos) ==
    [built |-> TRUE, email_text |-> text, work_order_count |-> Len(wos)]

\* PromptBuilder: the confidence scoring weights, as functions of the
\* signal, and the blended score the prompt prescribes: of the exact-match
\* signals only the highest applies, every other signal is additive
EXACT_MATCH_WEIGHTS ==
    [s \in {"exact_unit", "exact_address", "building_identifier", "property_name"} |->
        CASE s \in {"exact_unit", "exact_address"} -> 50 [] OTHER -> 45]
AMOUNT_WEIGHTS ==
    [s \in {"exact_amount", "close_amount", "rough_amount"} |->
        CASE s = "exact_amount" -> 30 [] s = "close_amount" -> 20 [] OTHER -> 10]
JOB_TYPE_WEIGHTS ==
    [s \in {"exact_job", "job_category", "general_work"} |->
        CASE s = "exact_job" -> 15 [] s = "job_category" -> 10 [] OTHER -> 5]
LOCATION_WEIGHTS ==
    [s \in {"address_fragment", "general_area"} |->
        CASE s = "address_fragment" -> 15 [] OTHER -> 5]

\* the sum of the weights w of the signals in S
RECURSIVE SumWeights(_, _)
SumWeights(w, S) ==
    IF S \cap DOMAIN w = {} THEN 0
    ELSE LET s == CHOOSE x \in S \cap DOMAIN w : TRUE
         IN  w[s] + SumWeights(w, S \ {s})

\* the highest weight w of a signal in S, 0 when none applies
MaxWeight(w, S) ==
    IF S \cap DOMAIN w = {} THEN 0
    ELSE CHOOSE m \in {w[s] : s \in S \cap DOMAIN w} :
             \A s \in S \cap DOMAIN w : w[s] <= m

blended_score(S) ==
    MaxWeight(EXACT_MATCH_WEIGHTS, S) + SumWeights(AMOUNT_WEIGHTS, S)
        + SumWeights(JOB_TYPE_WEIGHTS, S) + SumWeights(LOCATION_WEIGHTS, S)

\* PromptBuilder._format_work_orders.  A work-order dict carries its
\* identifier and the lengths of its location and description; the summary
\* is the sequence of its lines.
WORK_ORDER_LIMIT == 100       \* work_orders[:100]
Min(a, b) == IF a < b THEN a ELSE b

wo_line(wo) ==
    [kind |-> "wo", id |-> wo.id, total |-> wo.total,
     location_len |-> Min(wo.location_len, 50),
     description_len |-> Min(wo.description_len, 80)]

format_work_orders_mutant_no_remainder(wos) ==
    IF wos = <<>> THEN <<[kind |-> "none"]>>
    ELSE [i \in 1..Min(Len(wos), WORK_ORDER_LIMIT) |-> wo_line(wos[i])]
format_work_orders(wos) ==
    IF wos = <<>> THEN <<[kind |-> "none"]>>      \* "No work orders available"
    ELSE [i \in 1..Min(Len(wos), WORK_ORDER_LIMIT) |-> wo_line(wos[i])]
         \o (IF Len(wos) > WORK_ORDER_LIMIT
             THEN <<[kind |-> "more", count |-> Len(wos) - WORK_ORDER_LIMIT]>>
             ELSE <<>>)

\* the dicts find_matches returns
FailureKeys == {"success", "error", "matches", "unmatched_items", "summary"}
FailureDict(err, summary) ==
    ApiResult(FailureKeys, FALSE, err,
              Payload(TopKeys, ListOf(<<>>), ListOf(<<>>), SummaryText(summary)))

\* "Input validation failed: " + '; '.join(errors); the field holds the
\* first of the joined errors
input_failure(san) ==
    FailureDict(Err("Input validation failed",
                    IF san.errors = <<>> THEN "" ELSE san.errors[1]),
                "Input validation failed")
gateway_failure ==
    FailureDict(Err("Failed to get response from Claude API", ""), "API call failed")
validation_failure(v) ==
    FailureDict(IF "error" \in v.has THEN v.error
                ELSE Err("Unknown validation error", ""),
                "Response validation failed")
\* the handler of `except Exception as e` in find_matches
client_error(kind) ==
    FailureDict(Err("Anthropic client error", kind), "Processing failed")
\* result = validation["parsed"]; result["success"] = True
success_result(v) ==
    ApiResult(v.parsed.has \cup {"success"}, TRUE, NoErr, v.parsed)

\* if not sanitization_result['is_valid']
input_rejected_mutant_never(san) == FALSE
input_rejected(san) == ~san.is_valid

\* the texts the service answers with in a run
GoodPayload(items) ==
    Payload(TopKeys, ListOf(items), ListOf(<<"Misc cleanup $75">>), Summary("str"))
RunResponses ==
    {<<>>,                                             \* text of length 0
     <<Prose>>,                                        \* no JSON at all
     <<BadObj>>,                                       \* braces, not JSON
     <<Obj(GoodPayload(<<Entry(<<"WO#", "A5966">>, Num(850))>>))>>,
     <<Prose, Obj(GoodPayload(<<Entry(<<"WO#", "A5966">>, Num(850))>>)), Prose>>,
     <<Obj(GoodPayload(<<>>))>>,
     <<Obj(GoodPayload(<<Entry(<<"WO#", "A5966">>, Num(850)),
                         Without(Entry(<<"B1">>, Num(600)), "confidence")>>))>>,
     <<Obj(GoodPayload(<<Entry(<<"B1">>, Num(1500))>>))>>,
     <<Obj(GoodPayload(<<Entry(<<"X9">>, Num(300))>>))>>,
     <<Obj(Payload({"matches", "summary"}, ListOf(<<>>), NotList("absent"),
                   Summary("str")))>>}

\* find_matches, step 1 with a rejected text: the failure is returned
RejectInput ==
    /\ pc = "start"
    /\ LET san == sanitize_email_text(email_text, strict_mode)
       IN  /\ input_rejected(san)
           /\ sanitization_result' = san
           /\ api_result' = input_failure(san)
    /\ pc' = "reconcile"
    /\ UNCHANGED <<amtVars, extVars>>
    /\ UNCHANGED <<email_text, strict_mode, callVars, valVars, work_orders,
                   matching_result>>

\* find_matches, steps 1 and 2: the text is accepted and the prompt built
AcceptInput ==
    /\ pc = "start"
    /\ LET san == sanitize_email_text(email_text, strict_mode)
       IN  /\ ~input_rejected(san)
           /\ sanitization_result' = san
           /\ prompt' = build_matching_prompt(san.sanitized_text, work_orders)
    /\ pc' = "call"
    /\ UNCHANGED <<amtVars, extVars>>
    /\ UNCHANGED <<email_text, strict_mode, max_retries, attempt, calls, outcome,
                   wait, valVars, recVars>>

\* _make_api_call: an attempt whose response has text
CallReturnsText ==
    /\ pc = "call"
    /\ in_loop(attempt, max_retries)
    /\ \E text \in RunResponses : response' = text
    /\ outcome' = "text"
    /\ calls' = calls + 1
    /\ pc' = "respond"
    /\ UNCHANGED <<amtVars, extVars>>
    /\ UNCHANGED <<sanVars, max_retries, prompt, attempt, wait, validation, recVars>>

\* _make_api_call: an attempt that fails and is followed by a sleep
CallFailsRetry ==
    /\ pc = "call"
    /\ in_loop(attempt, max_retries)
    /\ can_retry(attempt, max_retries)
    /\ \E kind \in FailureKinds :
          /\ outcome' = kind
          /\ wait' = backoff(kind, attempt)
    /\ calls' = calls + 1
    /\ pc' = "sleep"
    /\ UNCHANGED <<amtVars, extVars>>
    /\ UNCHANGED <<sanVars, max_retries, prompt, attempt, valVars, recVars>>

\* _make_api_call: the last attempt fails; the exception is raised again and
\* caught by find_matches, which returns the failure
CallFailsFinal ==
    /\ pc = "call"
    /\ in_loop(attempt, max_retries)
    /\ ~can_retry(attempt, max_retries)
    /\ \E kind \in FailureKinds :
          /\ outcome' = kind
          /\ api_result' = client_error(kind)
    /\ calls' = calls + 1
    /\ pc' = "reconcile"
    /\ UNCHANGED <<amtVars, extVars>>
    /\ UNCHANGED <<sanVars, max_retries, prompt, attempt, wait, valVars,
                   work_orders, matching_result>>

\* time.sleep returns and the loop goes to its next attempt
Sleep ==
    /\ pc = "sleep"
    /\ attempt' = attempt + 1
    /\ pc' = "call"
    /\ UNCHANGED <<amtVars, extVars>>
    /\ UNCHANGED <<sanVars, max_retries, prompt, calls, outcome, wait, valVars,
                   recVars>>

\* _make_api_call: the loop ends without a return; None reaches find_matches
LoopExhausted ==
    /\ pc = "call"
    /\ ~in_loop(attempt, max_retries)
    /\ api_result' = gateway_failure
    /\ pc' = "reconcile"
    /\ UNCHANGED <<amtVars, extVars>>
    /\ UNCHANGED <<sanVars, callVars, valVars, work_orders, matching_result>>

\* find_matches, from `if not response` to its return
HandleResponse ==
    /\ pc = "respond"
    /\ IF response = <<>>
       THEN /\ api_result' = gateway_failure
            /\ UNCHANGED validation
       ELSE LET v == validate_response(response)
            IN  /\ validation' = v
                /\ api_result' = IF "success" \in v.has /\ v.success
                                 THEN success_result(v)
                                 ELSE validation_failure(v)
    /\ pc' = "reconcile"
    /\ UNCHANGED <<amtVars, extVars>>
    /\ UNCHANGED <<sanVars, callVars, response, work_orders, matching_result>>

(***************************************************************************)
(* Specification SpecValidate: validate_response applied to any response   *)
(* text of the bounded input set.                                          *)
(***************************************************************************)
\* prose (possibly holding a stray brace) around the JSON object
Wraps == {<<>>, <<Prose>>, <<Open>>, <<Close>>}

ResponseTexts ==
    {<<Obj(p)>> : p \in Payloads}
    \cup {pre \o <<Obj(p)>> \o post :
            pre \in Wraps, post \in Wraps,
            p \in {Payload(TopKeys, ListOf(<<Entry(<<"WO#", "A5966">>, Num(850))>>),
                           ListOf(<<>>), Summary("str"))}}
    \cup {pre \o post : pre \in Wraps \cup {<<BadObj>>}, post \in Wraps}

NoApiResult == ApiResult({}, FALSE, NoErr, EmptyObject)

\* the variables of the call loop, before any run
IdleCall ==
    /\ max_retries = 0
    /\ prompt = NoPrompt
    /\ attempt = 0
    /\ calls = 0
    /\ outcome = "none"
    /\ wait = 0

\* the variables of the sanitizer and of the call loop, before any run
IdleRun ==
    /\ email_text = <<>>
    /\ strict_mode = TRUE
    /\ sanitization_result = NoSanResult
    /\ IdleCall

InitValidate ==
    /\ pc = "validate"
    /\ IdleExt
    /\ IdleAmounts
    /\ response \in ResponseTexts
    /\ validation = NotRun
    /\ api_result = NoApiResult
    /\ work_orders = <<>>
    /\ matching_result = NoResult
    /\ IdleRun

Validate ==
    /\ pc = "validate"
    /\ validation' = validate_response(response)
    /\ pc' = "validated"
    /\ UNCHANGED <<amtVars, extVars>>
    /\ UNCHANGED <<response, sanVars, callVars, recVars>>

NextValidate == Validate

SpecValidate == InitValidate /\ [][NextValidate]_vars

(***************************************************************************)
(* Claims about validate_response                                          *)
(***************************************************************************)
\* the object validate_response parsed out of the current response text
ParsedOf(text) == json_loads(json_match(text))
Parses(text) == json_match(text) # <<>> /\ json_ok(json_match(text))

HasRequiredKeys(m) ==
    m.kind = "dict" /\ \A i \in 1..Len(required_match_fields) :
                           required_match_fields[i] \in m.has
WellFormed(m) == HasRequiredKeys(m) /\ confidence_valid(m.confidence)
LacksKey(m) == m.kind = "dict" /\ ~HasRequiredKeys(m)

\* C1: a response with all three top-level keys whose matches list holds
\* well-formed entries and at least one entry lacking a required key is
\* validated successfully, and the matches returned are exactly the
\* well-formed entries in their original order.
C1_MalformedEntriesDropped ==
    (/\ pc = "validated"
     /\ Parses(response)
     /\ ParsedOf(response).has = TopKeys
     /\ ParsedOf(response).matches.t = "list"
     /\ \A i \in 1..Len(ParsedOf(response).matches.items) :
           LET m == ParsedOf(response).matches.items[i]
           IN  WellFormed(m) \/ LacksKey(m)
     /\ \E i \in 1..Len(ParsedOf(response).matches.items) :
           LacksKey(ParsedOf(response).matches.items[i]))
    => (/\ validation.success
        /\ validation.parsed.matches.items =
              SelectSeq(ParsedOf(response).matches.items, WellFormed))

\* C2: when every entry has the required keys, validation succeeds whatever
\* the confidence values are (out of range, numeric string, null), and every
\* confidence returned is a number in [0,100].
C2_ConfidenceClamped ==
    (/\ pc = "validated"
     /\ Parses(response)
     /\ ParsedOf(response).has = TopKeys
     /\ ParsedOf(response).matches.t = "list"
     /\ \A i \in 1..Len(ParsedOf(response).matches.items) :
           HasRequiredKeys(ParsedOf(response).matches.items[i]))
    => (/\ validation.success
        /\ Len(validation.parsed.matches.items) =
              Len(ParsedOf(response).matches.items)
        /\ \A i \in 1..Len(validation.parsed.matches.items) :
              confidence_valid(validation.parsed.matches.items[i].confidence))

(***************************************************************************)
(* Specification SpecReconcile: from_api_response applied to any dict of   *)
(* the bounded input set and any candidate list.                           *)
(***************************************************************************)
WorkOrderSet ==
    {WorkOrder(<<"A5966">>, Total450), WorkOrder(<<"A5966">>, Total500),
     WorkOrder(<<"B1">>, Total75)}
WorkOrderLists == SeqsUpTo(WorkOrderSet, MaxWorkOrders)

GatewayError == Err("Failed to get response from Claude API", "")

\* successful results over every list of entries
EntryResults ==
    {ApiResult(TopKeys \cup {"success"}, TRUE, NoErr, p) : p \in EntryPayloads}

\* results varying the success flag, the error key and the keys carried
ShapeResults ==
    {ApiResult(p.has \cup flag \cup err, flag # {} /\ sv,
               IF err = {} THEN NoErr ELSE GatewayError, p)
        : p \in ShapePayloads, flag \in {{}, {"success"}}, err \in {{}, {"error"}},
          sv \in BOOLEAN}

\* identifiers as the service may write them: with or without the "WO#"
\* label of the prompt, with blanks around, and the identifier of a work
\* order whose own wo_id holds the characters "WO#" (pieces "X", "WO#", "7")
IdForms ==
    {<<"A5966">>, <<"WO#", "A5966">>, <<" ", "WO#", "A5966", " ">>,
     <<"WO#", " ", "A5966">>, <<"X", "WO#", "7">>, <<"WO#", "X", "WO#", "7">>}

IdWorkOrderLists ==
    SeqsUpTo({WorkOrder(<<"A5966">>, Total450), WorkOrder(<<"X", "WO#", "7">>, Total75)},
             MaxWorkOrders)

\* successful results over one entry per identifier form
IdResults ==
    {ApiResult(TopKeys \cup {"success"}, TRUE, NoErr,
               Payload(TopKeys, ListOf(<<Entry(id, Num(850))>>), ListOf(<<>>),
                       Summary("str")))
        : id \in IdForms}

\* amount comparisons as the service may write them (cents): the difference
\* it states is, or is not, the difference of the two amounts it states
AmountForms ==
    {[SampleAmounts EXCEPT !.email_amount = Num(e), !.wo_amount = Num(w),
                           !.difference = Num(d)]
        : e \in {45000}, w \in {45000, 50000}, d \in {0, -5000, 5000}}

\* successful results over one entry per amount comparison
AmountResults ==
    {ApiResult(TopKeys \cup {"success"}, TRUE, NoErr,
               Payload(TopKeys,
                       ListOf(<<[Entry(<<"WO#", "A5966">>, Num(850))
                                    EXCEPT !.amount_comparison = a]>>),
                       ListOf(<<>>), Summary("str")))
        : a \in AmountForms}

InitReconcile ==
    /\ pc = "reconcile"
    /\ IdleExt
    /\ IdleAmounts
    /\ \/ api_result \in EntryResults /\ work_orders = <<WorkOrder(<<"A5966">>, Total450)>>
       \/ api_result \in ShapeResults /\ work_orders \in WorkOrderLists
       \/ api_result \in IdResults /\ work_orders \in IdWorkOrderLists
       \/ api_result \in AmountResults /\ work_orders \in WorkOrderLists
    /\ matching_result = NoResult
    /\ response = <<>>
    /\ validation = NotRun
    /\ IdleRun

Reconcile ==
    /\ pc = "reconcile"
    /\ matching_result' = from_api_response(api_result, work_orders)
    /\ pc' = "reconciled"
    /\ UNCHANGED <<amtVars, extVars>>
    /\ UNCHANGED <<api_result, work_orders, sanVars, callVars, valVars>>

NextReconcile == Reconcile

SpecReconcile == InitReconcile /\ [][NextReconcile]_vars

(***************************************************************************)
(* Claims about from_api_response                                          *)
(***************************************************************************)
NonNumericConfidence(m) ==
    "confidence" \notin m.has \/ m.confidence.t \in {"str", "null"}

\* C3: in the MatchingResult of a successful api_result every Match has an
\* integer confidence in 0..100; when every entry is a dict with a finite
\* confidence, each entry yields its Match, and an entry whose confidence
\* is missing or non-numeric yields a Match with confidence 0.
C3_ConfidenceInRange ==
    (pc = "reconciled" /\ success_flag(api_result) /\ ~matching_result.raised)
    => (/\ \A i \in 1..Len(matching_result.matches) :
              matching_result.matches[i].confidence \in 0..100
        /\ (/\ "matches" \in api_result.has
            /\ api_result.matches.t = "list"
            /\ \A i \in 1..Len(api_result.matches.items) :
                  keeps_match(api_result.matches.items[i]))
           => (/\ Len(matching_result.matches) = Len(api_result.matches.items)
               /\ \A i \in 1..Len(api_result.matches.items) :
                     NonNumericConfidence(api_result.matches.items[i])
                     => matching_result.matches[i].confidence = 0))

\* reached: a result built from an entry with confidence 150 and an entry
\* with a null confidence: both kept, with 100 and 0
C3_Witness ==
    /\ pc = "reconciled"
    /\ success_flag(api_result)
    /\ Len(api_result.matches.items) = 2
    /\ api_result.matches.items[1].confidence = Num(1500)
    /\ api_result.matches.items[2].confidence = Null
    /\ Len(matching_result.matches) = 2
    /\ matching_result.matches[1].confidence = 100
    /\ matching_result.matches[2].confidence = 0

EmailTexts == SeqsUpTo({Chunk(k) : k \in ChunkKinds}, MaxChunks)

IdleRest ==
    /\ response = <<>>
    /\ validation = NotRun
    /\ api_result = NoApiResult
    /\ matching_result = NoResult

InitSanitize ==
    /\ pc = "sanitize"
    /\ IdleExt
    /\ IdleAmounts
    /\ email_text \in EmailTexts
    /\ strict_mode \in BOOLEAN
    /\ sanitization_result = NoSanResult
    /\ work_orders = <<>>
    /\ IdleCall
    /\ IdleRest

Sanitize ==
    /\ pc = "sanitize"
    /\ sanitization_result' = sanitize_email_text(email_text, strict_mode)
    /\ pc' = "sanitized"
    /\ UNCHANGED <<amtVars, extVars>>
    /\ UNCHANGED <<email_text, strict_mode, callVars, valVars, recVars>>

NextSanitize == Sanitize

SpecSanitize == InitSanitize /\ [][NextSanitize]_vars

(***************************************************************************)
(* Specification Spec: one matching run, as run_matching performs it:      *)
(* find_matches (sanitize, build the prompt, call the service with         *)
(* retries, validate) and then from_api_response.                          *)
(***************************************************************************)
Text(kinds) == [i \in 1..Len(kinds) |-> Chunk(kinds[i])]

\* the free texts of the runs
RunEmails ==
    {<<>>,
     Text(<<"plain">>),                             \* too short
     Text(<<"plain", "cur", "repair", "unit">>),    \* billing text
     Text(<<"plain", "plain">>),                    \* no amount in it
     Text(<<"plain", "script", "cur">>),            \* suspicious pattern
     Text(<<"plain", "tag", "tag", "tag">>),        \* too short once cleaned
     Text(<<"bulk", "plain">>)}                     \* too long

Init ==
    /\ pc = "start"
    /\ IdleExt
    /\ IdleAmounts
    /\ email_text \in RunEmails
    /\ strict_mode \in BOOLEAN
    /\ max_retries \in 0..MaxRetries
    /\ sanitization_result = NoSanResult
    /\ prompt = NoPrompt
    /\ attempt = 0
    /\ calls = 0
    /\ outcome = "none"
    /\ wait = 0
    /\ work_orders = <<WorkOrder(<<"A5966">>, Total450), WorkOrder(<<"B1">>, Total75)>>
    /\ IdleRest

Next ==
    \/ RejectInput
    \/ AcceptInput
    \/ CallReturnsText
    \/ CallFailsRetry
    \/ CallFailsFinal
    \/ Sleep
    \/ LoopExhausted
    \/ HandleResponse
    \/ Reconcile

Spec == Init /\ [][Next]_vars

(***************************************************************************)
(* Claims about _make_api_call and find_matches                            *)
(***************************************************************************)
Returned == pc \in {"reconcile", "reconciled"}

\* C5: when the first call of a run is answered with an empty response (no
\* rate limit, no provider error before it), the run is over at once with
\* a failed result: no sleep and no second call.
C5_EmptyResponseNotRetried ==
    (outcome = "empty" /\ calls = 1)
    => (Returned /\ ~success_flag(api_result))

\* C6: the service is called at most max_retries times; no call follows a
\* call that returned text; as soon as the last permitted attempt has been
\* rate-limited or has failed with a provider error the run is out of the
\* retry loop with a failed result that carries an error message; and the
\* retry loop always has a next step while the run is inside it.
C6_RetriesBounded ==
    /\ [](calls <= max_retries)
    /\ [][outcome = "text" => calls' = calls]_vars
    /\ []((calls = max_retries /\ outcome \in {"rate_limit", "api_error"})
          => (Returned /\ ~success_flag(api_result) /\ api_result.error # NoErr))
    /\ [](pc = "call" => ENABLED (CallReturnsText \/ CallFailsRetry
                                  \/ CallFailsFinal \/ LoopExhausted))
    /\ [](pc = "sleep" => ENABLED Sleep)

\* reached: three rate-limited attempts out of three, and the failed result
C6_Witness ==
    /\ pc = "reconciled"
    /\ max_retries = 3
    /\ calls = 3
    /\ outcome = "rate_limit"
    /\ ~matching_result.success

\* C7: the sleep after a rate-limit error is at most 30 s and, below the
\* cap, longer than the one of the attempt before; the sleep after a
\* provider error is at most 5 s and shorter than the rate-limit sleep of
\* the same attempt; nothing sleeps after the last permitted attempt.
C7_BackoffBounds ==
    /\ (pc = "sleep" /\ outcome = "rate_limit")
       => (/\ wait <= 30
           /\ (attempt > 0 /\ rate_limit_wait(attempt - 1) < 30)
              => wait > rate_limit_wait(attempt - 1))
    /\ (pc = "sleep" /\ outcome = "api_error")
       => (wait <= 5 /\ wait < rate_limit_wait(attempt))
    /\ pc = "sleep" => attempt < max_retries - 1

\* reached: the sleep after the 16th rate-limited attempt, held at the cap
C7_Witness ==
    /\ pc = "sleep"
    /\ outcome = "rate_limit"
    /\ attempt = 15
    /\ wait = 30

\* C8: once sanitization has rejected the text, the run has returned the
\* failed result with no prompt built and no call to the service.
C8_RejectionBeforeGateway ==
    (pc # "start" /\ ~sanitization_result.is_valid)
    => (/\ Returned
        /\ ~prompt.built
        /\ calls = 0
        /\ ~success_flag(api_result)
        /\ api_result.error.msg = "Input validation failed")

\* reached: a run over a non-empty rejected text, with retries available
C8_Witness ==
    /\ pc = "reconciled"
    /\ email_text # <<>>
    /\ max_retries > 0
    /\ ~sanitization_result.is_valid
    /\ calls = 0

ContractViolations ==
    {"No JSON found in response", "JSON parsing failed", "Missing required field"}

\* C10: a run that returned success = false had its input rejected, or its
\* gateway failed (a failed last attempt, no attempt allowed, no text), or
\* its response had no parseable JSON or lacked a top-level field; and the
\* failed result carries an error message.
C10_OnlyThreeFailureClasses ==
    (Returned /\ ~success_flag(api_result))
    => (/\ api_result.error # NoErr
        /\ \/ ~sanitization_result.is_valid
           \/ outcome \in FailureKinds
           \/ calls = 0
           \/ response = <<>>
           \/ validation.error.msg \in ContractViolations)

(***************************************************************************)
(* Claims about sanitize_email_text                                        *)
(***************************************************************************)
SeqRange(q) == {q[i] : i \in 1..Len(q)}

\* C9 as stated: a text without currency-like content is rejected.
C9_NoCurrencyRejected ==
    (pc = "sanitized" /\ ~has_currency(email_text))
    => ~sanitization_result.is_valid

RejectionReasons ==
    {"Input text is empty or not a string", "Text too long", "Text too short",
     "Suspicious pattern detected", "High ratio of special characters",
     "Text became too short after sanitization"}

PlainKinds == {"plain", "repair", "unit"}

\* C9 as amended: the lack of currency-like content is only a warning.  An
\* accepted text without an amount carries the warning "No currency amounts
\* detected"; a rejected text is rejected for its length, its emptiness or
\* a security issue; and a text of plain words without any amount, within
\* the length limits, is accepted.
C9_NoCurrencyOnlyWarns ==
    pc = "sanitized"
    => (/\ (sanitization_result.is_valid
            /\ ~has_currency(sanitization_result.sanitized_text))
           => "No currency amounts detected" \in SeqRange(sanitization_result.warnings)
        /\ ~sanitization_result.is_valid
           => (/\ sanitization_result.errors # <<>>
               /\ SeqRange(sanitization_result.errors) \subseteq RejectionReasons)
        /\ (/\ \A i \in 1..Len(email_text) : email_text[i].k \in PlainKinds
            /\ SumLen(email_text) >= MIN_TEXT_LENGTH
            /\ SumLen(email_text) <= MAX_TEXT_LENGTH)
           => sanitization_result.is_valid)

\* reached: a text without any amount that was accepted, with the warning
C9_Witness ==
    /\ pc = "sanitized"
    /\ ~has_currency(email_text)
    /\ sanitization_result.is_valid
    /\ "No currency amounts detected" \in SeqRange(sanitization_result.warnings)

(***************************************************************************)
(* More claims about from_api_response                                     *)
(***************************************************************************)
\* a successful result whose matches are a list of entries that are all kept
AllKept ==
    /\ pc = "reconciled"
    /\ success_flag(api_result)
    /\ "matches" \in api_result.has
    /\ api_result.matches.t = "list"
    /\ \A i \in 1..Len(api_result.matches.items) :
          keeps_match(api_result.matches.items[i])

CandidateIds == {work_orders[i].wo_id : i \in 1..Len(work_orders)}

\* the identifier of a validated entry without its "WO#" label
BareId(m) == SelectSeq(m.work_order_id, LAMBDA x : x \notin {"WO#", " "})

\* C11: every validated entry yields its Match and nothing is raised; when
\* the identifier of the entry is the wo_id of no candidate, the Match has
\* no back-reference and carries the entry's confidence, evidence and
\* amounts; an entry whose identifier is a candidate's keeps its
\* back-reference whatever the other entries are.
C11_UnresolvedIdentifierKept ==
    AllKept
    => (/\ ~matching_result.raised
        /\ Len(matching_result.matches) = Len(api_result.matches.items)
        /\ \A i \in 1..Len(api_result.matches.items) :
              LET e == api_result.matches.items[i]
                  m == matching_result.matches[i]
              IN  WellFormed(e)
                  => IF BareId(e) \in CandidateIds
                     THEN m.work_order.wo_id = BareId(e)
                     ELSE /\ m.work_order = NoWorkOrder
                          /\ m.confidence = e.confidence.v \div 10
                          /\ m.evidence.primary_signals = e.evidence.primary_signals
                          /\ m.evidence.supporting_signals = e.evidence.supporting_signals
                          /\ m.evidence.score_breakdown = e.evidence.score_breakdown
                          /\ m.amount_comparison.email_amount = e.amount_comparison.email_amount
                          /\ m.amount_comparison.wo_amount = e.amount_comparison.wo_amount
                          /\ m.amount_comparison.difference = e.amount_comparison.difference)

\* reached: an entry for B1, which is no candidate, before an entry for the
\* candidate A5966: two matches, the first without back-reference
C11_Witness ==
    /\ AllKept
    /\ work_orders = <<WorkOrder(<<"A5966">>, Total450)>>
    /\ Len(api_result.matches.items) = 2
    /\ api_result.matches.items[1].work_order_id = <<"B1">>
    /\ api_result.matches.items[2] = Entry(<<"WO#", "A5966">>, Num(850))
    /\ Len(matching_result.matches) = 2
    /\ matching_result.matches[1].work_order = NoWorkOrder
    /\ matching_result.matches[1].confidence = 60
    /\ matching_result.matches[2].work_order.wo_id = <<"A5966">>

(***************************************************************************)
(* More claims about validate_response                                     *)
(***************************************************************************)
\* C12: a response whose JSON object lacks a top-level key fails, without
\* a success flag, with the error "Missing required field" naming a key
\* that is absent; {"matches": [], "summary": "ok"} names unmatched_items.
C12_MissingTopLevelKeyNamed ==
    (pc = "validated" /\ Parses(response) /\ ParsedOf(response).has # TopKeys)
    => (/\ "success" \notin validation.has
        /\ validation.error.msg = "Missing required field"
        /\ validation.error.field \in TopKeys \ ParsedOf(response).has
        /\ ParsedOf(response).has = {"matches", "summary"}
           => validation.error.field = "unmatched_items")

\* reached: {"matches": [], "summary": "..."} validated, failing on
\* unmatched_items
C12_Witness ==
    /\ pc = "validated"
    /\ response = <<Obj(Payload({"matches", "summary"}, ListOf(<<>>),
                                NotList("absent"), Summary("str")))>>
    /\ validation.has = {"error", "parsed"}
    /\ validation.error = Err("Missing required field", "unmatched_items")

\* C13: a payload is accepted only if matches is a list, unmatched_items is
\* a list and summary is a string.
C13_TopLevelTypesChecked ==
    (pc = "validated" /\ "success" \in validation.has /\ validation.success)
    => (/\ validation.parsed.matches.t = "list"
        /\ validation.parsed.unmatched_items.t = "list"
        /\ validation.parsed.summary.t = "str")

\* a payload conforming to the wire schema
Conforming(p) ==
    /\ p.has = TopKeys
    /\ p.matches.t = "list"
    /\ \A i \in 1..Len(p.matches.items) : WellFormed(p.matches.items[i])
    /\ p.unmatched_items.t = "list"
    /\ p.summary.t = "str"

\* the text is prose, one conforming JSON object at position i, prose
ProseAround(text, i) ==
    /\ i \in 1..Len(text)
    /\ text[i].k = "obj"
    /\ Conforming(text[i].p)
    /\ \A j \in 1..Len(text) : j # i => text[j].k # "obj"

\* the text holds a "{" with a "}" somewhere after it
HasBraceSpan(text) ==
    \E i, j \in 1..Len(text) : i <= j /\ HasOpen(text[i]) /\ HasClose(text[j])

\* C14 as stated: whatever the prose around one conforming JSON object,
\* validation succeeds and returns the object; "No JSON found" is the
\* error only of a text without any {...} span.
C14_AnyProseTolerated ==
    pc = "validated"
    => (/\ \A i \in 1..Len(response) :
              ProseAround(response, i)
              => (validation.success /\ validation.parsed = response[i].p)
        /\ validation.error.msg = "No JSON found in response"
           => ~HasBraceSpan(response))

\* C14 as amended: the object is returned when the prose before it holds
\* no "{" and the prose after it holds no "}"; "No JSON found" is the error
\* only of a text without any {...} span.
C14_BraceFreeProseTolerated ==
    pc = "validated"
    => (/\ \A i \in 1..Len(response) :
              (/\ ProseAround(response, i)
               /\ \A j \in 1..(i - 1) : ~HasOpen(response[j])
               /\ \A j \in (i + 1)..Len(response) : ~HasClose(response[j]))
              => (validation.success /\ validation.parsed = response[i].p)
        /\ validation.error.msg = "No JSON found in response"
           => ~HasBraceSpan(response))

\* reached: "} {...json...} {" validated successfully: the stray braces lie
\* outside the span from the first "{" to the last "}"
C14_Witness ==
    /\ pc = "validated"
    /\ Len(response) = 3
    /\ response[1] = Close
    /\ ProseAround(response, 2)
    /\ response[3] = Open
    /\ validation.success
    /\ validation.parsed = response[2].p

\* the identifier with only a leading "WO#" label and the blanks around it
\* removed
WithoutLeadingLabel(id) ==
    LET bare == strip_right(strip_left(id))
    IN  IF bare # <<>> /\ Head(bare) = "WO#"
        THEN strip_left(Tail(bare)) ELSE bare

\* C15: the work_order_id of each Match is the entry's identifier with only
\* the leading "WO#" label and the surrounding blanks removed, and the
\* back-reference is the candidate whose wo_id equals it, when there is one.
C15_OnlyLeadingLabelStripped ==
    AllKept
    => \A i \in 1..Len(api_result.matches.items) :
          LET e == api_result.matches.items[i]
              m == matching_result.matches[i]
              id == WithoutLeadingLabel(e.work_order_id)
          IN  "work_order_id" \in e.has
              => (/\ m.work_order_id = id
                  /\ id \in CandidateIds => m.work_order.wo_id = id)

\* C16 as stated: every Match of a successful MatchingResult has a
\* confidence of at least 50.
C16_MatchesAtLeast50 ==
    (pc = "reconciled" /\ matching_result.success)
    => \A i \in 1..Len(matching_result.matches) :
          matching_result.matches[i].confidence >= 50

\* a successful result whose matches are dicts with finite confidences
EveryEntryFinite ==
    /\ pc = "reconciled"
    /\ success_flag(api_result)
    /\ "matches" \in api_result.has
    /\ api_result.matches.t = "list"
    /\ \A i \in 1..Len(api_result.matches.items) :
          LET e == api_result.matches.items[i]
          IN  e.kind = "dict" /\ ~("confidence" \in e.has /\ e.confidence.t = "inf")

\* C16 as amended: from_api_response applies no threshold.  Every entry
\* yields its Match with a confidence in 0..100; an entry whose confidence
\* is a number below 50 is kept with that confidence (0 when negative), and
\* its confidence_level is "Low".
C16_LowConfidenceKept ==
    EveryEntryFinite
    => (/\ Len(matching_result.matches) = Len(api_result.matches.items)
        /\ \A i \in 1..Len(api_result.matches.items) :
              LET e == api_result.matches.items[i]
                  m == matching_result.matches[i]
              IN  /\ m.confidence \in 0..100
                  /\ ("confidence" \in e.has /\ e.confidence.t = "num"
                      /\ e.confidence.v < 500)
                     => (/\ m.confidence < 50
                         /\ m.confidence * 10 <= e.confidence.v \/ m.confidence = 0
                         /\ m.confidence * 10 > e.confidence.v - 10
                         /\ confidence_level(m.confidence) = "Low"))

\* reached: an entry with confidence 30 after one with 85, both in matches
C16_Witness ==
    /\ EveryEntryFinite
    /\ Len(api_result.matches.items) = 2
    /\ api_result.matches.items[1].confidence = Num(850)
    /\ api_result.matches.items[2].confidence = Num(300)
    /\ Len(matching_result.matches) = 2
    /\ matching_result.matches[2].confidence = 30
    /\ confidence_level(matching_result.matches[2].confidence) = "Low"

(***************************************************************************)
(* Specification SpecCompare: the properties of an AmountComparison, read  *)
(* for any amounts of the bounded input set.                               *)
(***************************************************************************)
\* thousandths of a dollar: 0, 0.009, 0.01, 0.2, 1.5, 1.501
Magnitudes == {0, 9, 10, 200, 1500, 1501}
AmountValues == Magnitudes \cup {-x : x \in Magnitudes}

Comparisons ==
    {AmountComparison(e, w, d) :
        e \in {0, 8500, 10000, -10000},
        w \in {0, 200, 10000, -10000},
        d \in AmountValues}

IdlePipeline ==
    /\ work_orders = <<>>
    /\ IdleRest
    /\ IdleRun

InitCompare ==
    /\ pc = "compare"
    /\ IdleExt
    /\ amount_comparison \in Comparisons
    /\ amount_view = NoView
    /\ target_amount = 0
    /\ tolerance_percent = 0
    /\ matching_wos = [raised |-> FALSE, wos |-> <<>>]
    /\ total = <<>>
    /\ clean_amount = Zero
    /\ first_amount = Zero
    /\ IdlePipeline

\* the three properties are read
Compare ==
    /\ pc = "compare"
    /\ amount_view' = AmountView(percentage_difference(amount_comparison),
                                 is_exact_match(amount_comparison),
                                 is_close_match(amount_comparison))
    /\ pc' = "compared"
    /\ UNCHANGED <<amount_comparison, target_amount, tolerance_percent,
                   matching_wos, total, clean_amount, first_amount>>
    /\ UNCHANGED <<sanVars, callVars, valVars, recVars, extVars>>

NextCompare == Compare

SpecCompare == InitCompare /\ [][NextCompare]_vars

(***************************************************************************)
(* Claims about AmountComparison                                           *)
(***************************************************************************)
\* C17 as stated: with wo_amount # 0 the percentage difference equals
\* |difference| / wo_amount * 100; with wo_amount = 0 it is +infinity when
\* email_amount # 0 and 0 when email_amount = 0.
C17_PercentageOverCandidate ==
    pc = "compared"
    => LET ac == amount_comparison
           pct == amount_view.percentage_difference
       IN  /\ ac.wo_amount # 0
              => FracEq(pct, FracTimes(FracDiv(Abs(ac.difference), ac.wo_amount), 100))
           /\ (ac.wo_amount = 0 /\ ac.email_amount # 0) => pct = Infinity
           /\ (ac.wo_amount = 0 /\ ac.email_amount = 0) => pct = Frac(0, 1)

\* C17 as amended: with wo_amount # 0 the percentage difference is finite
\* and equals |difference| / |wo_amount| * 100, also for a negative
\* wo_amount; with wo_amount = 0 it is +infinity when email_amount # 0 and
\* 0 when email_amount = 0, whatever the difference.
C17_PercentageOfMagnitudes ==
    pc = "compared"
    => LET ac == amount_comparison
           pct == amount_view.percentage_difference
       IN  /\ ac.wo_amount # 0
              => (/\ pct.den > 0
                  /\ pct.num * Abs(ac.wo_amount)
                        = Abs(ac.difference) * 100 * pct.den)
           /\ (ac.wo_amount = 0 /\ ac.email_amount # 0) => pct = Infinity
           /\ (ac.wo_amount = 0 /\ ac.email_amount = 0) => pct = Frac(0, 1)

\* reached: difference 1.50 on a candidate amount of -10: 15 percent
C17_Witness ==
    /\ pc = "compared"
    /\ amount_comparison.wo_amount = -10000
    /\ amount_comparison.difference = 1500
    /\ amount_view.percentage_difference.num
          = 15 * amount_view.percentage_difference.den
    /\ amount_view.percentage_difference.den > 0

\* C19: is_exact_match holds exactly when |difference| < 0.01, and
\* is_close_match exactly when the percentage difference is at most 15
\* (true at 1.50 of 10, false at 1.501 of 10, false at infinity).
C19_ExactAndCloseMatch ==
    pc = "compared"
    => LET ac == amount_comparison
           pct == amount_view.percentage_difference
       IN  /\ amount_view.is_exact_match <=> (-10 < ac.difference /\ ac.difference < 10)
           /\ amount_view.is_close_match
                 <=> (pct.den > 0 /\ pct.num <= 15 * pct.den)
           /\ (Abs(ac.wo_amount) = 10000 /\ Abs(ac.difference) = 1500)
                 => amount_view.is_close_match
           /\ (Abs(ac.wo_amount) = 10000 /\ Abs(ac.difference) = 1501)
                 => ~amount_view.is_close_match
           /\ (ac.wo_amount = 0 /\ ac.email_amount # 0)
                 => ~amount_view.is_close_match

\* reached: a difference of 0.009 with amounts of 10 against 0, whose
\* percentage is infinite: exact, and not close
C19_Witness ==
    /\ pc = "compared"
    /\ amount_comparison = AmountComparison(10000, 0, 9)
    /\ amount_view.is_exact_match
    /\ ~amount_view.is_close_match
    /\ amount_view.percentage_difference = Infinity

(***************************************************************************)
(* Specification SpecParseAmount: get_clean_amount applied to any total of *)
(* at most MaxTotalLen characters, and again to the textual form str()     *)
(* gives its result (as from_sheets_row does with a numeric cell).         *)
(***************************************************************************)
TotalChars == {"0", "1", "5", ".", "-", "$"}

SampleTotals ==
    {<<"$", "1", ",", "2", "3", "4", ".", "5", "6">>,     \* $1,234.56
     <<"a", "b", "c">>,
     <<"(", "4", "5", "0", ")">>,
     <<"0", ".", "0", "0", "0", "0", "1">>,               \* 0.00001
     <<"1", "e", "3">>}

Totals == SeqsUpTo(TotalChars, MaxTotalLen) \cup SampleTotals

InitParseAmount ==
    /\ pc = "parse"
    /\ IdleExt
    /\ total \in Totals
    /\ clean_amount = Zero
    /\ first_amount = Zero
    /\ amount_comparison = NoComparison
    /\ amount_view = NoView
    /\ target_amount = 0
    /\ tolerance_percent = 0
    /\ matching_wos = [raised |-> FALSE, wos |-> <<>>]
    /\ IdlePipeline

\* get_clean_amount on the total
ParseAmount ==
    /\ pc = "parse"
    /\ clean_amount' = get_clean_amount(total)
    /\ pc' = "parsed"
    /\ UNCHANGED <<total, first_amount, amount_comparison, amount_view,
                   target_amount, tolerance_percent, matching_wos>>
    /\ UNCHANGED <<sanVars, callVars, valVars, recVars, extVars>>

\* the amount is written out with str() and becomes a total again
FormatAmount ==
    /\ pc = "parsed"
    /\ first_amount' = clean_amount
    /\ total' = float_str(clean_amount)
    /\ pc' = "formatted"
    /\ UNCHANGED <<clean_amount, amount_comparison, amount_view, target_amount,
                   tolerance_percent, matching_wos>>
    /\ UNCHANGED <<sanVars, callVars, valVars, recVars, extVars>>

\* get_clean_amount on the textual form
ParseAgain ==
    /\ pc = "formatted"
    /\ clean_amount' = get_clean_amount(total)
    /\ pc' = "reparsed"
    /\ UNCHANGED <<total, first_amount, amount_comparison, amount_view,
                   target_amount, tolerance_percent, matching_wos>>
    /\ UNCHANGED <<sanVars, callVars, valVars, recVars, extVars>>

NextParseAmount == ParseAmount \/ FormatAmount \/ ParseAgain

SpecParseAmount == InitParseAmount /\ [][NextParseAmount]_vars

(***************************************************************************)
(* Claims about get_clean_amount                                           *)
(***************************************************************************)
\* the characters of the total that are digits, '.' or '-'
Kept(tot) == SelectSeq(tot, LAMBDA c : c \in Digits \cup {".", "-"})

\* C20: get_clean_amount returns 0.0 when nothing, only "-" or only "." is
\* left of the total after stripping (and a float in every other case), and
\* parsing the textual form of its result gives the same value again.
C20_ParseAmountIdempotent ==
    /\ pc = "parsed" =>
          clean_amount =
              IF Kept(total) \in {<<>>, <<"-">>, <<".">>} \/ ~float_parses(Kept(total))
              THEN Zero ELSE float_of(Kept(total))
    /\ pc = "reparsed" => FloatEq(clean_amount, first_amount)

(***************************************************************************)
(* Specification SpecPercentages: every percentage difference between an   *)
(* email amount and a work-order amount, the one of an AmountComparison    *)
(* and the one of get_work_orders_by_amount_range over a sheet.            *)
(***************************************************************************)
SheetWorkOrders ==
    {WorkOrder(<<"A5966">>, Total450), WorkOrder(<<"B1">>, Total117),
     WorkOrder(<<"B1">>, Total100), WorkOrder(<<"1001">>, Total100),
     WorkOrder(<<"A5966">>, TotalBlank)}
Sheets == SeqsUpTo(SheetWorkOrders, MaxWorkOrders)
\* target amounts, in cents; tolerances, in percent
TargetAmounts == {0, 10000, 45000, -10000}
Tolerances == {0, 15}

InitAmountRange ==
    /\ pc = "range"
    /\ IdleExt
    /\ work_orders \in Sheets
    /\ target_amount \in TargetAmounts
    /\ tolerance_percent \in Tolerances
    /\ matching_wos = [raised |-> FALSE, wos |-> <<>>]
    /\ amount_comparison = NoComparison
    /\ amount_view = NoView
    /\ total = <<>>
    /\ clean_amount = Zero
    /\ first_amount = Zero
    /\ IdleRest
    /\ IdleRun

AmountRange ==
    /\ pc = "range"
    /\ matching_wos' = get_work_orders_by_amount_range(work_orders, target_amount,
                                                       tolerance_percent)
    /\ pc' = "ranged"
    /\ UNCHANGED <<amount_comparison, amount_view, target_amount, tolerance_percent,
                   total, clean_amount, first_amount>>
    /\ UNCHANGED <<sanVars, callVars, valVars, recVars, extVars>>

InitPercentages == InitCompare \/ InitAmountRange
NextPercentages == Compare \/ AmountRange
SpecPercentages == InitPercentages /\ [][NextPercentages]_vars

\* the alpha-numeric work orders of the sheet whose amount is positive and
\* within the tolerance of the target, the percentage taken over the work
\* order's amount
WithinOfCandidate ==
    LET within(wo) ==
            LET a == get_clean_amount(wo.total)
                d == FracAbs(FracSub(FloatFrac(a), Frac(target_amount, 100)))
            IN  /\ is_positive(a)
                /\ d.num * 100 * FloatFrac(a).den
                       <= tolerance_percent * d.den * FloatFrac(a).num
    IN  SelectSeq(SelectSeq(work_orders, is_alpha_numeric), within)

\* C18: every percentage difference between an email (target) amount and a
\* work-order amount has the work-order amount as its denominator: that of
\* an AmountComparison is |difference / wo_amount| * 100, and
\* get_work_orders_by_amount_range returns (without raising) exactly the
\* alpha-numeric work orders with a positive amount for which
\* |wo_amount - target| / wo_amount * 100 <= tolerance_percent.
C18_CandidateIsDenominator ==
    /\ (pc = "compared" /\ amount_comparison.wo_amount # 0) =>
          LET p == amount_view.percentage_difference
          IN  p.num * Abs(amount_comparison.wo_amount)
                  = Abs(amount_comparison.difference) * 100 * p.den
    /\ pc = "ranged" =>
          /\ ~matching_wos.raised
          /\ matching_wos.wos = WithinOfCandidate

(***************************************************************************)
(* Claims about the result of sanitize_email_text                          *)
(***************************************************************************)
\* C29: in every result of sanitize_email_text, in strict and in non-strict
\* mode, is_valid is true exactly when the errors list is empty, and an
\* invalid result has an empty sanitized_text and sanitized_length 0.
C29_ValidIffNoErrors ==
    pc = "sanitized" =>
        /\ sanitization_result.is_valid <=> sanitization_result.errors = <<>>
        /\ ~sanitization_result.is_valid =>
               /\ sanitization_result.sanitized_text = <<>>
               /\ sanitization_result.sanitized_length = 0

(***************************************************************************)
(* Claims about the amounts of a Match                                     *)
(***************************************************************************)
\* C30: in every Match from_api_response produces, the difference of the
\* amount comparison is email_amount - wo_amount, so the comparison is an
\* exact match (abs(difference) < 0.01, one cent) only when the two amounts
\* differ by less than one cent.
C30_DifferenceIsSigned ==
    pc = "reconciled" =>
        \A i \in 1..Len(matching_result.matches) :
            LET ac == matching_result.matches[i].amount_comparison
            IN  (ac.email_amount.t = "num" /\ ac.wo_amount.t = "num"
                        /\ ac.difference.t = "num") =>
                    /\ ac.difference.v = ac.email_amount.v - ac.wo_amount.v
                    /\ Abs(ac.difference.v) < 1 =>
                           Abs(ac.email_amount.v - ac.wo_amount.v) < 1

(***************************************************************************)
(* Specification SpecRow: from_sheets_row on a row whose four cells are    *)
(* present or missing, strings (with blanks around), None or numbers.      *)
(***************************************************************************)
IdCells ==
    {StrCell(<<" ", "A5966", " ">>), StrCell(<<"1001">>), StrCell(<<>>), NoneCell,
     IntCell(<<"1001">>)}
TotalCells ==
    {StrCell(<<" ">> \o Total450 \o <<" ">>), StrCell(<<>>), NoneCell,
     FloatCell(Float(FALSE, <<"4", "5">>, 3))}
TextCells == {StrCell(<<"5966 Southern Ave", " ">>), NoneCell}

Rows ==
    {[has |-> h,
      cells |-> [k \in RowKeys |->
                    CASE k = "WO #" -> id [] k = "Total" -> tot
                      [] k = "Location" -> loc [] OTHER -> desc]]
        : h \in SUBSET RowKeys, id \in IdCells, tot \in TotalCells,
          loc \in TextCells, desc \in TextCells}

InitRow ==
    /\ pc = "row"
    /\ row_data \in Rows
    /\ sheet_work_order = <<>>
    /\ IdleExceptRow
    /\ IdlePipeline

FromSheetsRow ==
    /\ pc = "row"
    /\ sheet_work_order' = from_sheets_row(row_data)
    /\ pc' = "row_built"
    /\ UNCHANGED <<row_data, notRow>>

NextRow == FromSheetsRow

SpecRow == InitRow /\ [][NextRow]_vars

\* a string with no blank at either end
Trimmed(q) == q = <<>> \/ (Head(q) # " " /\ q[Len(q)] # " ")

\* the cell of key k is missing or None
MissingOrNone(k) == k \notin row_data.has \/ row_data.cells[k].t = "none"

\* C24: from_sheets_row never raises; every field of the WorkOrder is a
\* trimmed string, the empty string when the cell is missing or None; so a
\* row whose 'WO #' is missing or None gives wo_id = '' and a work order
\* that is not alpha-numeric.
C24_RowFieldsFallBackToEmpty ==
    pc = "row_built" =>
        /\ ~sheet_work_order.raised
        /\ Trimmed(sheet_work_order.wo_id) /\ Trimmed(sheet_work_order.total)
        /\ Trimmed(sheet_work_order.location)
        /\ Trimmed(sheet_work_order.description)
        /\ MissingOrNone("WO #") =>
               (sheet_work_order.wo_id = <<>> /\ ~is_alpha_numeric(sheet_work_order))
        /\ MissingOrNone("Total") => sheet_work_order.total = <<>>
        /\ MissingOrNone("Location") => sheet_work_order.location = <<>>
        /\ MissingOrNone("Description") => sheet_work_order.description = <<>>

(***************************************************************************)
(* Specification SpecSummary: _format_work_orders on a candidate list of   *)
(* any length up to MaxCandidates, in ascending or descending order of the *)
(* identifiers.                                                            *)
(***************************************************************************)
CandidateDict(id) ==
    [id |-> id, total |-> Total450, location_len |-> (id * 7) % 61,
     description_len |-> (id * 11) % 97]

CandidateLists ==
    {[i \in 1..n |-> CandidateDict(IF asc THEN i ELSE n + 1 - i)]
        : n \in 0..MaxCandidates, asc \in BOOLEAN}

InitSummary ==
    /\ pc = "summarize"
    /\ candidates \in CandidateLists
    /\ wo_summary = <<>>
    /\ IdleExceptFmt
    /\ IdlePipeline

FormatWorkOrders ==
    /\ pc = "summarize"
    /\ wo_summary' = format_work_orders(candidates)
    /\ pc' = "summarized"
    /\ UNCHANGED <<candidates, notFmt>>

NextSummary == FormatWorkOrders

SpecSummary == InitSummary /\ [][NextSummary]_vars

\* the lines of the summary of one kind
LinesOf(kind) == SelectSeq(wo_summary, LAMBDA l : l.kind = kind)

Signals ==
    DOMAIN EXACT_MATCH_WEIGHTS \cup DOMAIN AMOUNT_WEIGHTS
        \cup DOMAIN JOB_TYPE_WEIGHTS \cup DOMAIN LOCATION_WEIGHTS

InitScore ==
    /\ pc = "score"
    /\ signals \in SUBSET Signals
    /\ score = 0
    /\ IdleExceptScore
    /\ IdlePipeline

BlendScore ==
    /\ pc = "score"
    /\ score' = blended_score(signals)
    /\ pc' = "scored"
    /\ UNCHANGED <<signals, notScore>>

NextScore == BlendScore

SpecScore == InitScore /\ [][NextScore]_vars

\* C22: the blended confidence score (at most one identity signal at its
\* weight, plus the weight of every applicable amount, job-type and location
\* signal) lies in 0..100 for every combination of applicable signals.
C22_ScoreWithin100 ==
    pc = "scored" => (0 <= score /\ score <= 100)

(***************************************************************************)
(* utils/thread_manager: ThreadManager and WorkerTask.                     *)
(*                                                                         *)
(* submit_task, cancel_task and process_completed_tasks run on the GUI     *)
(* thread, one at a time; every worker thread runs worker() and            *)
(* WorkerTask.execute step by step, interleaved with the GUI thread and    *)
(* with the other workers.  The position wpc of a worker is                *)
(*   start    thread started, worker() not yet entered                     *)
(*   inc      _active_threads incremented                                  *)
(*   reg      _active_tasks[task_id] = task stored                         *)
(*   checked  execute() has read cancelled = False                         *)
(*   func     started_at set, func about to be called                      *)
(*   running  func executing                                               *)
(*   put      execute() has returned                                       *)
(*   dec      result queued                                                *)
(*   done     _active_threads decremented, thread finished                 *)
(***************************************************************************)
TaskIds == {"load_work_orders", "matching_analysis"}

WorkerTask(task_id) ==
    [task_id |-> task_id, wpc |-> "start", started |-> FALSE, completed |-> FALSE,
     error |-> FALSE, cancelled |-> FALSE,
     ran |-> FALSE,          \* func has been called
     cancel_true |-> FALSE,  \* a cancel() of this task returned True
     processed |-> FALSE,    \* process_completed_tasks took its result
     completes |-> 0]        \* number of on_complete calls

\* WorkerTask.is_completed, is_successful
is_completed(task) == task.completed
is_successful(task) == task.completed /\ ~task.error /\ ~task.cancelled

\* submit_task: whether the task is accepted
at_capacity(n) == n >= tm_max_workers
accepts(task_id) ==
    /\ ~at_capacity(tm_active_threads)
    /\ ~(tm_active_tasks[task_id] # 0
          /\ ~is_completed(tm_tasks[tm_active_tasks[task_id]]))

InitThreads ==
    /\ pc = "threads"
    /\ tm_max_workers \in 1..MaxWorkers
    /\ tm_active_threads = 0
    /\ tm_active_tasks = [id \in TaskIds |-> 0]
    /\ tm_tasks = <<>>
    /\ tm_result_queue = <<>>
    /\ tm_last_submit = [task_id |-> "", accepted |-> FALSE]
    /\ IdleExceptTm
    /\ IdlePipeline

\* ThreadManager.submit_task, accepted: the task is created and its thread
\* started
SubmitAccepted ==
    /\ pc = "threads"
    /\ Len(tm_tasks) < MaxTasks
    /\ \E id \in TaskIds :
          /\ accepts(id)
          /\ tm_tasks' = Append(tm_tasks, WorkerTask(id))
          /\ tm_last_submit' = [task_id |-> id, accepted |-> TRUE]
    /\ UNCHANGED <<pc, tm_max_workers, tm_active_threads, tm_active_tasks,
                   tm_result_queue, notTm>>

\* ThreadManager.submit_task returning False
SubmitRejected ==
    /\ pc = "threads"
    /\ \E id \in TaskIds :
          /\ ~accepts(id)
          /\ tm_last_submit' = [task_id |-> id, accepted |-> FALSE]
    /\ UNCHANGED <<pc, tm_max_workers, tm_active_threads, tm_active_tasks,
                   tm_tasks, tm_result_queue, notTm>>

\* a step of worker i: its position and its fields change as given
WorkerStep(i, from, to, fields) ==
    /\ pc = "threads"
    /\ i \in 1..Len(tm_tasks)
    /\ tm_tasks[i].wpc = from
    /\ tm_tasks' = [tm_tasks EXCEPT ![i] =
                        [k \in DOMAIN tm_tasks[i] |->
                            IF k = "wpc" THEN to
                            ELSE IF k \in DOMAIN fields THEN fields[k]
                            ELSE tm_tasks[i][k]]]
    /\ UNCHANGED <<pc, tm_max_workers, tm_last_submit, notTm>>

NoFields == [k \in {} |-> FALSE]

\* worker(): self._active_threads.increment()
WorkerIncrement ==
    \E i \in 1..MaxTasks :
        /\ WorkerStep(i, "start", "inc", NoFields)
        /\ tm_active_threads' = tm_active_threads + 1
        /\ UNCHANGED <<tm_active_tasks, tm_result_queue>>

\* worker(): self._active_tasks[task_id] = task
WorkerRegister ==
    \E i \in 1..MaxTasks :
        /\ WorkerStep(i, "inc", "reg", NoFields)
        /\ tm_active_tasks' = [tm_active_tasks EXCEPT ![tm_tasks[i].task_id] = i]
        /\ UNCHANGED <<tm_active_threads, tm_result_queue>>

\* execute(): if self.cancelled: return
ExecuteCheckCancelled ==
    \E i \in 1..MaxTasks :
        /\ i <= Len(tm_tasks)
        /\ WorkerStep(i, "reg", IF tm_tasks[i].cancelled THEN "put" ELSE "checked",
                      NoFields)
        /\ UNCHANGED <<tm_active_threads, tm_active_tasks, tm_result_queue>>

\* execute(): self.started_at = time.time()
ExecuteSetStarted ==
    \E i \in 1..MaxTasks :
        /\ WorkerStep(i, "checked", "func", [started |-> TRUE])
        /\ UNCHANGED <<tm_active_threads, tm_active_tasks, tm_result_queue>>

\* execute(): self.func(...) is called
ExecuteCallFunc ==
    \E i \in 1..MaxTasks :
        /\ WorkerStep(i, "func", "running", [ran |-> TRUE])
        /\ UNCHANGED <<tm_active_threads, tm_active_tasks, tm_result_queue>>

\* execute(): func returns (completed_at set) or raises (error and
\* completed_at set)
ExecuteFuncEnds ==
    \E i \in 1..MaxTasks, raises \in BOOLEAN :
        /\ WorkerStep(i, "running", "put", [completed |-> TRUE, error |-> raises])
        /\ UNCHANGED <<tm_active_threads, tm_active_tasks, tm_result_queue>>

\* worker(): self._result_queue.put(...)
WorkerPut ==
    \E i \in 1..MaxTasks :
        /\ WorkerStep(i, "put", "dec", NoFields)
        /\ tm_result_queue' = Append(tm_result_queue, i)
        /\ UNCHANGED <<tm_active_threads, tm_active_tasks>>

\* worker(): finally: self._active_threads.decrement()
WorkerDecrement ==
    \E i \in 1..MaxTasks :
        /\ WorkerStep(i, "dec", "done", NoFields)
        /\ tm_active_threads' = tm_active_threads - 1
        /\ UNCHANGED <<tm_active_tasks, tm_result_queue>>

\* ThreadManager.cancel_task returning True: the task stored under the id
\* has started_at None, and cancel() sets cancelled
CancelTask ==
    /\ pc = "threads"
    /\ \E id \in TaskIds :
          /\ tm_active_tasks[id] # 0
          /\ ~tm_tasks[tm_active_tasks[id]].started
          /\ tm_tasks' = [tm_tasks EXCEPT ![tm_active_tasks[id]].cancelled = TRUE,
                                          ![tm_active_tasks[id]].cancel_true = TRUE]
    /\ UNCHANGED <<pc, tm_max_workers, tm_active_threads, tm_active_tasks,
                   tm_result_queue, tm_last_submit, notTm>>

\* the tasks of the queue
Queued == {tm_result_queue[n] : n \in 1..Len(tm_result_queue)}

\* whether process_completed_tasks calls on_success or on_error for a task
calls_back(task) == is_successful(task) \/ task.error

\* ThreadManager.process_completed_tasks on a queue that is not empty: every
\* result queued is taken; on_success or on_error is called as the task
\* ended, then on_complete, unless the first callback raised (R: the tasks
\* whose on_success or on_error raises)
ProcessCompletedTasks ==
    /\ pc = "threads"
    /\ tm_result_queue # <<>>
    /\ \E R \in SUBSET {i \in Queued : calls_back(tm_tasks[i])} :
          tm_tasks' = [i \in 1..Len(tm_tasks) |->
                          IF i \in Queued
                          THEN [tm_tasks[i] EXCEPT
                                    !.processed = TRUE,
                                    !.completes = IF i \in R THEN @ ELSE @ + 1]
                          ELSE tm_tasks[i]]
    /\ tm_result_queue' = <<>>
    /\ UNCHANGED <<pc, tm_max_workers, tm_active_threads, tm_active_tasks,
                   tm_last_submit, notTm>>

NextThreads ==
    \/ SubmitAccepted
    \/ SubmitRejected
    \/ WorkerIncrement
    \/ WorkerRegister
    \/ ExecuteCheckCancelled
    \/ ExecuteSetStarted
    \/ ExecuteCallFunc
    \/ ExecuteFuncEnds
    \/ WorkerPut
    \/ WorkerDecrement
    \/ CancelTask
    \/ ProcessCompletedTasks

SpecThreads == InitThreads /\ [][NextThreads]_vars

\* the worker threads scheduled fairly, and process_completed_tasks called
\* again and again (root.after(100, process_tasks))
SpecThreadsFair ==
    /\ SpecThreads
    /\ WF_vars(WorkerIncrement) /\ WF_vars(WorkerRegister)
    /\ WF_vars(ExecuteCheckCancelled) /\ WF_vars(ExecuteSetStarted)
    /\ WF_vars(ExecuteCallFunc) /\ WF_vars(ExecuteFuncEnds)
    /\ WF_vars(WorkerPut) /\ WF_vars(WorkerDecrement)
    /\ WF_vars(ProcessCompletedTasks)

(***************************************************************************)
(* Claims about the ThreadManager                                          *)
(***************************************************************************)
\* the worker threads started and not finished
Unfinished == {i \in 1..Len(tm_tasks) : tm_tasks[i].wpc # "done"}

\* C25: under every interleaving of submit_task calls and worker threads,
\* the number of worker threads started and not finished never exceeds
\* max_workers.
C25_WorkersWithinCapacity ==
    pc = "threads" => Cardinality(Unfinished) <= tm_max_workers

\* the task was accepted and its function has neither ended nor been skipped
InFlight(i) ==
    tm_tasks[i].wpc \in {"start", "inc", "reg", "checked", "func", "running"}

\* C26: no two tasks with the same task_id are accepted and unfinished at the
\* same time.
C26_TaskIdUnique ==
    pc = "threads" =>
        \A i, j \in 1..Len(tm_tasks) :
            (i # j /\ tm_tasks[i].task_id = tm_tasks[j].task_id)
                => ~(InFlight(i) /\ InFlight(j))

\* C27: if cancel_task returned True for a task, its function is never
\* executed, before or after the call; and once the function has started
\* executing, cancel_task does not return True for it.
C27_CancelledNeverRuns ==
    /\ [](pc = "threads" =>
            \A i \in 1..Len(tm_tasks) : tm_tasks[i].cancel_true => ~tm_tasks[i].ran)
    /\ [][pc = "threads" =>
            \A i \in 1..Len(tm_tasks) :
                tm_tasks[i].ran => tm_tasks'[i].cancel_true = tm_tasks[i].cancel_true]_vars

\* C28: while process_completed_tasks keeps being called, every accepted
\* task eventually has had on_complete called, and never more than once,
\* whether its function returned, raised or was cancelled and whether or not
\* its on_success or on_error callback raises (on_complete of a matching run
\* is _on_matching_finished, which resets matching_in_progress).
C28_OnCompleteExactlyOnce ==
    /\ [](pc = "threads" => \A i \in 1..Len(tm_tasks) : tm_tasks[i].completes <= 1)
    /\ \A i \in 1..MaxTasks :
           (pc = "threads" /\ i <= Len(tm_tasks))
               ~> (i <= Len(tm_tasks) /\ tm_tasks[i].completes = 1)

(***************************************************************************)
(* gui/main_window: WorkOrderMatcherApp.  The GUI thread runs the event    *)
(* handlers and process_completed_tasks, one at a time; the functions of   *)
(* the two tasks (load_work_orders, run_matching) run on worker threads,   *)
(* interleaved with them.  A list of work orders is named by a number, 0   *)
(* being the empty list; the ThreadManager is seen through the two tasks   *)
(* the application submits (a task_id still running is rejected).          *)
(***************************************************************************)
SheetLists == 0..2

LoadResult(ok, list) == [task |-> "load_work_orders", ok |-> ok, list |-> list]
MatchingDone == [task |-> "matching_analysis", ok |-> TRUE, list |-> 0]

\* __init__: no work orders, the button as created, the first load submitted
InitGui ==
    /\ pc = "gui"
    /\ gui_work_orders = 0
    /\ matching_in_progress = FALSE
    /\ find_matches_button = TRUE
    /\ load_task = "running"
    /\ matching_task = "idle"
    /\ gui_result_queue = <<>>
    /\ prompt_candidates = 0
    /\ reconcile_candidates = 0
    /\ IdleExceptGui
    /\ IdlePipeline

\* _reload_work_orders (Tools > Reload Work Orders) and _load_work_orders_async
ReloadWorkOrders ==
    /\ pc = "gui"
    /\ ~matching_in_progress
    /\ find_matches_button' = FALSE
    /\ load_task' = "running"       \* submitted, or still running (rejected)
    /\ UNCHANGED <<pc, gui_work_orders, matching_in_progress, matching_task,
                   gui_result_queue, prompt_candidates, reconcile_candidates, notGui>>

\* the function load_work_orders returns a list or raises, and the worker
\* queues the result
LoadWorkOrdersEnds ==
    /\ pc = "gui"
    /\ load_task = "running"
    /\ Len(gui_result_queue) < MaxQueued
    /\ \E ok \in BOOLEAN, list \in SheetLists :
          gui_result_queue' = Append(gui_result_queue,
                                     LoadResult(ok, IF ok THEN list ELSE 0))
    /\ load_task' = "idle"
    /\ UNCHANGED <<pc, gui_work_orders, matching_in_progress, find_matches_button,
                   matching_task, prompt_candidates, reconcile_candidates, notGui>>

\* _on_email_text_change: the button follows the text, the work orders and
\* the flag
OnEmailTextChange ==
    /\ pc = "gui"
    /\ \E has_content \in BOOLEAN :
          find_matches_button' =
              (has_content /\ gui_work_orders # 0 /\ ~matching_in_progress)
    /\ UNCHANGED <<pc, gui_work_orders, matching_in_progress, load_task,
                   matching_task, gui_result_queue, prompt_candidates,
                   reconcile_candidates, notGui>>

\* _find_matches (the button pressed, with enough text and work orders
\* loaded), _start_matching_async accepted and _on_matching_started
FindMatches ==
    /\ pc = "gui"
    /\ find_matches_button
    /\ ~matching_in_progress
    /\ gui_work_orders # 0
    /\ matching_task = "idle"
    /\ matching_task' = "started"
    /\ matching_in_progress' = TRUE
    /\ find_matches_button' = FALSE
    /\ UNCHANGED <<pc, gui_work_orders, load_task, gui_result_queue,
                   prompt_candidates, reconcile_candidates, notGui>>

\* run_matching: the dicts of self.work_orders are built and given to
\* find_matches
RunMatchingFindsMatches ==
    /\ pc = "gui"
    /\ matching_task = "started"
    /\ prompt_candidates' = gui_work_orders
    /\ matching_task' = "built"
    /\ UNCHANGED <<pc, gui_work_orders, matching_in_progress, find_matches_button,
                   load_task, gui_result_queue, reconcile_candidates, notGui>>

\* run_matching: from_api_response(result, self.work_orders), the function
\* returns and the worker queues the result
RunMatchingReconciles ==
    /\ pc = "gui"
    /\ matching_task = "built"
    /\ Len(gui_result_queue) < MaxQueued
    /\ reconcile_candidates' = gui_work_orders
    /\ matching_task' = "idle"
    /\ gui_result_queue' = Append(gui_result_queue, MatchingDone)
    /\ UNCHANGED <<pc, gui_work_orders, matching_in_progress, find_matches_button,
                   load_task, prompt_candidates, notGui>>

\* the callbacks of one result, on the state st of the application:
\* _on_work_orders_loaded, _on_work_orders_error, or _on_matching_completed
\* and _on_matching_finished
on_result(st, r) ==
    IF r.task = "load_work_orders"
    THEN IF r.ok
         THEN [st EXCEPT !.work_orders = r.list, !.button = TRUE]
         ELSE [st EXCEPT !.button = FALSE]
    ELSE [st EXCEPT !.in_progress = FALSE, !.button = TRUE]

RECURSIVE on_results(_, _)
on_results(st, q) ==
    IF q = <<>> THEN st ELSE on_results(on_result(st, Head(q)), Tail(q))

\* process_tasks: process_completed_tasks on a queue that is not empty
GuiProcessCompletedTasks ==
    /\ pc = "gui"
    /\ gui_result_queue # <<>>
    /\ LET st == on_results([work_orders |-> gui_work_orders,
                             in_progress |-> matching_in_progress,
                             button |-> find_matches_button], gui_result_queue)
       IN  /\ gui_work_orders' = st.work_orders
           /\ matching_in_progress' = st.in_progress
           /\ find_matches_button' = st.button
    /\ gui_result_queue' = <<>>
    /\ UNCHANGED <<pc, load_task, matching_task, prompt_candidates,
                   reconcile_candidates, notGui>>

NextGui ==
    \/ ReloadWorkOrders
    \/ LoadWorkOrdersEnds
    \/ OnEmailTextChange
    \/ FindMatches
    \/ RunMatchingFindsMatches
    \/ RunMatchingReconciles
    \/ GuiProcessCompletedTasks

SpecGui == InitGui /\ [][NextGui]_vars

\* C23: within one matching run the candidates given to the prompt are the
\* candidates given to the reconciliation, and nothing changes
\* self.work_orders between the two steps of a run.
C23_RunSeesOneCandidateSet ==
    /\ [](pc = "gui" /\ matching_task = "idle"
            => prompt_candidates = reconcile_candidates)
    /\ [][pc = "gui" /\ matching_task = "built"
            => gui_work_orders' = gui_work_orders]_vars

====
